---- MODULE Spec2Model ----
(***************************************************************************)
(* A model of the OSINT aggregation core of RED_GOD: the file cache        *)
(* (src/utils/cache.py), the four resolve operations (search_username,     *)
(* search_phone, search_email, analyze_domain_complete) and the profile    *)
(* scrapers they fan out to; and of the Telegram front end                 *)
(* (src/core/bot.py): the lottery of a group chat and the search dialogs.  *)
(*                                                                         *)
(* Strings are sequences of one-character strings, so that the string      *)
(* functions of the code (strip, lstrip, lower, re.sub, re.match, split)   *)
(* are computed rather than assumed.  Python dictionaries are records;     *)
(* a key that a dictionary does not carry is a field the record does not   *)
(* have.  Time is counted in hours.                                        *)
(***************************************************************************)
EXTENDS Integers, Sequences, FiniteSets, TLC

(***************************************************************************)
(* Bounds of the model.                                                    *)
(***************************************************************************)
\* the clock advances in steps of TickHours hours, up to MaxClock
TickHours == 12
MaxClock == 36
\* the calls ask the cache for at most MaxEntries different keys, so the
\* cache directory holds at most MaxEntries files
MaxEntries == 1
\* at most MaxFound profile scrapers of one call find a profile
MaxFound == 2
\* with the network up, at most MaxDeviations e-mail platforms of one call
\* answer with something other than HTTP 200
MaxDeviations == 1
\* at most MaxOvertakes profile scrapers of one call answer while a scraper
\* registered ahead of them is still outstanding
MaxOvertakes == 1
\* at most MaxLookupFailures of the lookups of one domain call (name
\* resolution, HTTP request, DNS records) fail
MaxLookupFailures == 1
\* a result handed to the image extraction has at most MaxImageEntries
\* entries
MaxImageEntries == 2
\* at most MaxStops calls of cmd_stop_lottery are under way at a time
MaxStops == 2
\* /random_1 opens at most MaxLobbies lobbies
MaxLobbies == 1
\* where two /stop_in run side by side, the join button is pressed by the
\* users 1..MaxJoiners; where one /stop_in runs, by the users 1..MaxCrowd
MaxJoiners == 2
MaxCrowd == 51

(***************************************************************************)
(* Characters and the string functions the code uses.                      *)
(***************************************************************************)
Digits == {"0", "1", "2", "3", "4", "5", "6", "7", "8", "9"}
LowerLetters == {"a", "b", "c", "d"}
UpperLetters == {"A", "B", "C", "D"}
Letters == LowerLetters \cup UpperLetters
Whitespace == {" ", "\n"}

\* str.lower() on one character
LowerChar(c) ==
    CASE c = "A" -> "a"
      [] c = "B" -> "b"
      [] c = "C" -> "c"
      [] c = "D" -> "d"
      [] OTHER -> c

\* str.lower()
Lower(s) == [i \in 1..Len(s) |-> LowerChar(s[i])]

\* the number of leading characters of s that belong to chars
LeadingIn(s, chars) ==
    IF \E i \in 1..Len(s) : s[i] \notin chars
    THEN (CHOOSE i \in 1..Len(s) :
            /\ s[i] \notin chars
            /\ \A j \in 1..(i - 1) : s[j] \in chars) - 1
    ELSE Len(s)

\* the number of trailing characters of s that belong to chars
TrailingIn(s, chars) ==
    IF \E i \in 1..Len(s) : s[i] \notin chars
    THEN Len(s) - (CHOOSE i \in 1..Len(s) :
            /\ s[i] \notin chars
            /\ \A j \in (i + 1)..Len(s) : s[j] \in chars)
    ELSE Len(s)

\* str.lstrip(chars)
Lstrip(s, chars) == SubSeq(s, LeadingIn(s, chars) + 1, Len(s))

\* str.strip(): leading and trailing whitespace removed
Strip(s) ==
    IF \A i \in 1..Len(s) : s[i] \in Whitespace
    THEN <<>>
    ELSE SubSeq(s, LeadingIn(s, Whitespace) + 1, Len(s) - TrailingIn(s, Whitespace))

\* a variant of DigitsOnly that keeps the plus sign of a number
DigitsOnlyKeepsPlus(s) == SelectSeq(s, LAMBDA c : c \in Digits \cup {"+"})

\* re.sub(r'\D', '', s): every non-digit removed
DigitsOnly(s) == SelectSeq(s, LAMBDA c : c \in Digits)

\* 'c in s' for a character c
Contains(s, c) == \E i \in 1..Len(s) : s[i] = c

(***************************************************************************)
(* The cache: one file per key in the cache directory.                     *)
(***************************************************************************)
CACHE_EXPIRY_HOURS == 24

\* a variant of GetCacheKey that keeps the letter case
GetCacheKeyKeepsCase(query, search_type) == <<search_type, ":">> \o query

\* f"{search_type}:{query}".lower(); the MD5 digest of the string is taken
\* to be injective, so the string itself names the file.  The search type
\* is one token of the string.
GetCacheKey(query, search_type) == Lower(<<search_type, ":">> \o query)


\* json.dump(data, f): the document written to the file.  Every payload the
\* core builds consists of strings, integers, booleans, lists and
\* string-keyed dictionaries only, which json.load gives back unchanged.
JsonDump(data) == [valid |-> TRUE, data |-> data]

\* what is left of a file when json.dump stops half way
TruncatedDocument == [valid |-> FALSE]

\* json.load(f) raises on a document that is not complete JSON
JsonLoadRaises(content) == ~content.valid

\* json.load(f)
JsonLoad(content) == content.data

\* Python's None, and a value that is not None
None == [none |-> TRUE]
Some(v) == [none |-> FALSE, value |-> v]

\* outcomes of the file-system calls of one cache.get / cache.set
NoFaults == [exists |-> "ok", stat |-> "ok", unlink |-> "ok", read |-> "ok", write |-> "ok"]
\* a call of cache.get fails; or the file has just been removed by someone
\* else, so that both stat and unlink raise FileNotFoundError
ReadFaults ==
    {[NoFaults EXCEPT !.exists = "raise"],
     [NoFaults EXCEPT !.stat = "raise"],
     [NoFaults EXCEPT !.unlink = "raise"],
     [NoFaults EXCEPT !.stat = "raise", !.unlink = "raise"],
     [NoFaults EXCEPT !.read = "raise"]}
\* open() or json.dump of cache.set fails
WriteFaults ==
    {[NoFaults EXCEPT !.write = "open_raises"],
     [NoFaults EXCEPT !.write = "dump_raises"]}

\* a variant of IsCacheFresh with the comparison turned round
IsCacheFreshInverted(file, clock, io) ==
    IF io.stat = "raise"
    THEN FALSE
    ELSE clock > file.mtime + CACHE_EXPIRY_HOURS

\* OSINTCache._is_cache_fresh
IsCacheFresh(file, clock, io) ==
    IF io.stat = "raise"
    THEN FALSE
    ELSE clock < file.mtime + CACHE_EXPIRY_HOURS

\* a variant of CacheGet that does not look at the age of the file
CacheGetNoExpiry(dir, query, search_type, clock, io) ==
    LET cache_key == GetCacheKey(query, search_type) IN
    IF io.exists = "raise"
    THEN [dir |-> dir, value |-> [none |-> TRUE], raised |-> TRUE]
    ELSE IF cache_key \notin DOMAIN dir
    THEN [dir |-> dir, value |-> [none |-> TRUE], raised |-> FALSE]
    ELSE IF io.read = "raise" \/ JsonLoadRaises(dir[cache_key].content)
    THEN [dir |-> dir, value |-> [none |-> TRUE], raised |-> FALSE]
    ELSE [dir |-> dir, value |-> [none |-> FALSE, value |-> JsonLoad(dir[cache_key].content)],
          raised |-> FALSE]

\* a variant of CacheGet in which a hit renews the modification time of
\* the file
CacheGetRenewing(dir, query, search_type, clock, io) ==
    LET cache_key == GetCacheKey(query, search_type) IN
    IF io.exists = "raise"
    THEN [dir |-> dir, value |-> None, raised |-> TRUE]
    ELSE IF cache_key \notin DOMAIN dir
    THEN [dir |-> dir, value |-> None, raised |-> FALSE]
    ELSE IF ~IsCacheFresh(dir[cache_key], clock, io)
    THEN IF io.unlink = "raise"
         THEN [dir |-> dir, value |-> None, raised |-> TRUE]
         ELSE [dir |-> [k \in DOMAIN dir \ {cache_key} |-> dir[k]],
               value |-> None, raised |-> FALSE]
    ELSE IF io.read = "raise" \/ JsonLoadRaises(dir[cache_key].content)
    THEN [dir |-> dir, value |-> None, raised |-> FALSE]
    ELSE [dir |-> [dir EXCEPT ![cache_key].mtime = clock],
          value |-> Some(JsonLoad(dir[cache_key].content)), raised |-> FALSE]

\* OSINTCache.get: the directory after the call, the value returned and
\* whether the call raised
CacheGet(dir, query, search_type, clock, io) ==
    LET cache_key == GetCacheKey(query, search_type) IN
    IF io.exists = "raise"
    THEN [dir |-> dir, value |-> None, raised |-> TRUE]
    ELSE IF cache_key \notin DOMAIN dir
    THEN [dir |-> dir, value |-> None, raised |-> FALSE]
    ELSE IF ~IsCacheFresh(dir[cache_key], clock, io)
    THEN IF io.unlink = "raise"
         THEN [dir |-> dir, value |-> None, raised |-> TRUE]
         ELSE [dir |-> [k \in DOMAIN dir \ {cache_key} |-> dir[k]],
               value |-> None, raised |-> FALSE]
    ELSE IF io.read = "raise" \/ JsonLoadRaises(dir[cache_key].content)
    THEN [dir |-> dir, value |-> None, raised |-> FALSE]
    ELSE [dir |-> dir, value |-> Some(JsonLoad(dir[cache_key].content)), raised |-> FALSE]

\* a variant of CacheSet that leaves the modification time of a file it
\* overwrites as it was
CacheSetKeepsMtime(dir, query, search_type, data, clock, io) ==
    LET cache_key == GetCacheKey(query, search_type)
        others == [k \in DOMAIN dir \ {cache_key} |-> dir[k]]
        mtime == IF cache_key \in DOMAIN dir THEN dir[cache_key].mtime ELSE clock
    IN  IF io.write = "ok"
        THEN [dir |-> (cache_key :> [content |-> JsonDump(data), mtime |-> mtime]) @@ others,
              value |-> TRUE]
        ELSE [dir |-> dir, value |-> FALSE]

\* OSINTCache.set: the directory after the call and the value returned
CacheSet(dir, query, search_type, data, clock, io) ==
    LET cache_key == GetCacheKey(query, search_type)
        others == [k \in DOMAIN dir \ {cache_key} |-> dir[k]]
    IN  CASE io.write = "ok" ->
               [dir |-> (cache_key :> [content |-> JsonDump(data), mtime |-> clock]) @@ others,
                value |-> TRUE]
          [] io.write = "open_raises" ->
               [dir |-> dir, value |-> FALSE]
          [] OTHER ->
               [dir |-> (cache_key :> [content |-> TruncatedDocument, mtime |-> clock]) @@ others,
                value |-> FALSE]

\* 'if cached_result:' -- a dictionary is true unless it is empty
Truthy(v) == ~v.none /\ DOMAIN v.value # {}


(***************************************************************************)
(* HTTP answers.  A page is described by what the scrapers look for in     *)
(* it: neg says that it carries the platform's negative marker ("account   *)
(* suspended", "Page not found", "not-found", ...), markup that it carries *)
(* the profile markup (the p-name element, window._sharedData, the         *)
(* og:title meta tag).  raised says that the request raised (network       *)
(* error, timeout).                                                        *)
(***************************************************************************)
Raised == [raised |-> TRUE, status |-> 0, neg |-> FALSE, markup |-> FALSE]
Http(status, neg, markup) == [raised |-> FALSE, status |-> status, neg |-> neg, markup |-> markup]
Pages == {Http(200, n, m) : n \in BOOLEAN, m \in BOOLEAN}
StatusAnswers == {Raised, Http(200, FALSE, FALSE), Http(404, FALSE, FALSE), Http(500, FALSE, FALSE)}
Answers == StatusAnswers \cup Pages

\* the title a page with profile markup carries
PageTitle == <<"T">>

EmptyDict == [k \in {} |-> <<>>]

\* the fields read from the og:title meta tag, under the key a scraper uses
OgFields(key, page) == IF page.markup THEN (key :> PageTitle) ELSE EmptyDict

\* a variant of GitHubScrape that returns the entry of a page without
\* profile markup, with found false
GitHubScrapeKeepsUnfound(username, r) ==
    IF r.raised \/ r.status # 200
    THEN None
    ELSE Some([platform |-> "GitHub", url |-> <<"https://github.com/">> \o username,
               found |-> r.markup,
               data |-> IF r.markup THEN [name |-> PageTitle] ELSE EmptyDict])

\* GitHubScraper.scrape
GitHubScrape(username, r) ==
    IF r.raised \/ r.status # 200 \/ ~r.markup
    THEN None
    ELSE Some([platform |-> "GitHub", url |-> <<"https://github.com/">> \o username,
               found |-> TRUE, data |-> [name |-> PageTitle]])

\* a variant of TwitterScrape that gives up only on a 404
TwitterScrapeUnless404(username, r) ==
    IF r.raised \/ r.status = 404 \/ r.neg
    THEN None
    ELSE Some([platform |-> "Twitter", url |-> <<"https://twitter.com/">> \o username,
               found |-> TRUE, data |-> [status |-> <<"profile exists">>]])

\* TwitterScraper.scrape
TwitterScrape(username, r) ==
    IF r.raised \/ r.status # 200 \/ r.neg
    THEN None
    ELSE Some([platform |-> "Twitter", url |-> <<"https://twitter.com/">> \o username,
               found |-> TRUE, data |-> [status |-> <<"profile exists">>]])

\* InstagramScraper.scrape
InstagramScrape(username, r) ==
    IF r.raised \/ r.status # 200 \/ ~r.markup
    THEN None
    ELSE Some([platform |-> "Instagram", url |-> <<"https://instagram.com/">> \o username,
               found |-> TRUE,
               data |-> [profile_exists |-> <<"True">>, access_type |-> <<"Public">>,
                         title |-> PageTitle]])

\* LinkedInScraper.scrape
LinkedInScrape(username, r) ==
    IF r.raised \/ r.status # 200
    THEN None
    ELSE Some([platform |-> "LinkedIn", url |-> <<"https://linkedin.com/in/">> \o username,
               found |-> TRUE,
               data |-> OgFields("profile_title", r) @@ [visibility |-> <<"Public">>]])

\* VKScraper.scrape
VKScrape(username, r) ==
    IF r.raised \/ r.status # 200 \/ r.neg
    THEN None
    ELSE Some([platform |-> "VK", url |-> <<"https://vk.com/">> \o username,
               found |-> TRUE, data |-> OgFields("name", r)])

\* TelegramScraper.scrape
TelegramScrape(username, r) ==
    IF r.raised \/ r.status # 200 \/ r.neg
    THEN None
    ELSE Some([platform |-> "Telegram", url |-> <<"https://t.me/">> \o username,
               found |-> TRUE, data |-> OgFields("name", r) @@ [type |-> <<"User">>]])

\* the scrapers list of scrape_username_info, in registration order
Scrapers == <<"GitHub", "Twitter", "Instagram", "LinkedIn", "VK", "Telegram">>

\* scraper.scrape(session) of the i-th registered scraper
Scrape(i, username, r) ==
    CASE Scrapers[i] = "GitHub" -> GitHubScrape(username, r)
      [] Scrapers[i] = "Twitter" -> TwitterScrape(username, r)
      [] Scrapers[i] = "Instagram" -> InstagramScrape(username, r)
      [] Scrapers[i] = "LinkedIn" -> LinkedInScrape(username, r)
      [] Scrapers[i] = "VK" -> VKScrape(username, r)
      [] OTHER -> TelegramScrape(username, r)

\* a task of asyncio.gather that has not finished
Pending == [pending |-> TRUE]
Finished(v) == [pending |-> FALSE, result |-> v]

\* a variant of GatherPut that fills the list in the order of arrival
GatherPutArrival(tasks, i, v) ==
    LET free == CHOOSE k \in 1..Len(tasks) :
                   /\ tasks[k].pending
                   /\ \A j \in 1..(k - 1) : ~tasks[j].pending
    IN  [tasks EXCEPT ![free] = Finished(v)]

\* asyncio.gather: the result of the i-th awaitable goes to the i-th place
\* of the list it returns
GatherPut(tasks, i, v) == [tasks EXCEPT ![i] = Finished(v)]

\* the loop over responses of scrape_username_info: every response that is
\* neither None nor an exception, in the order of the list
RECURSIVE CollectResponses(_)
CollectResponses(responses) ==
    IF responses = <<>>
    THEN <<>>
    ELSE LET response == Head(responses).result IN
         IF Truthy(response)
         THEN <<response.value>> \o CollectResponses(Tail(responses))
         ELSE CollectResponses(Tail(responses))

\* len([a for a in analyses if a.get('found', False)])
RECURSIVE CountFound(_)
CountFound(analyses) ==
    IF analyses = <<>>
    THEN 0
    ELSE (IF "found" \in DOMAIN Head(analyses) /\ Head(analyses).found THEN 1 ELSE 0)
         + CountFound(Tail(analyses))

\* username.lstrip('@').strip()
CleanUsername(username) == Strip(Lstrip(username, {"@"}))

\* search_username: the result for an empty username
UsernameEmptyResult ==
    [query |-> <<>>, type |-> "username", error |-> "Username cannot be empty",
     analyses |-> <<>>, from_cache |-> FALSE]

\* a variant of UsernameResult that counts every registered scraper as
\* checked
UsernameResultAllChecked(username, analyses) ==
    [query |-> username, type |-> "username", analyses |-> analyses,
     total_found |-> CountFound(analyses), total_checked |-> Len(Scrapers),
     success |-> Len(analyses) > 0, from_cache |-> FALSE]

\* search_username: the result built from the analyses
UsernameResult(username, analyses) ==
    [query |-> username, type |-> "username", analyses |-> analyses,
     total_found |-> CountFound(analyses), total_checked |-> Len(analyses),
     success |-> Len(analyses) > 0, from_cache |-> FALSE]

\* cached_result['from_cache'] = True
FromCache(cached_result) ==
    [k \in DOMAIN cached_result \cup {"from_cache"} |->
        IF k = "from_cache" THEN TRUE ELSE cached_result[k]]


(***************************************************************************)
(* E-mail and phone queries.                                               *)
(***************************************************************************)
\* str.split(sep) for a one-character separator
RECURSIVE Split(_, _)
Split(s, sep) ==
    IF ~Contains(s, sep)
    THEN <<s>>
    ELSE LET i == CHOOSE k \in 1..Len(s) : s[k] = sep /\ \A j \in 1..(k - 1) : s[j] # sep
         IN  <<SubSeq(s, 1, i - 1)>> \o Split(SubSeq(s, i + 1, Len(s)), sep)

\* '$' of a regular expression also matches before a newline that ends the
\* string: the part of s that the pattern up to '$' has to match
BeforeDollar(s) ==
    {s} \cup (IF Len(s) > 0 /\ s[Len(s)] = "\n" THEN {SubSeq(s, 1, Len(s) - 1)} ELSE {})

AllIn(s, chars) == \A i \in 1..Len(s) : s[i] \in chars

EmailLocalChars == Letters \cup Digits \cup {".", "_", "%", "+", "-"}
EmailDomainChars == Letters \cup Digits \cup {".", "-"}

\* re.match(r'^[a-zA-Z0-9._%+-]+@[a-zA-Z0-9.-]+\.[a-zA-Z]{2,}$', email)
EmailMatches(email) ==
    \E t \in BeforeDollar(email) :
      \E at \in 1..Len(t) : \E dot \in 1..Len(t) :
        /\ t[at] = "@"
        /\ t[dot] = "."
        /\ at > 1
        /\ AllIn(SubSeq(t, 1, at - 1), EmailLocalChars)
        /\ dot > at + 1
        /\ AllIn(SubSeq(t, at + 1, dot - 1), EmailDomainChars)
        /\ Len(t) - dot >= 2
        /\ AllIn(SubSeq(t, dot + 1, Len(t)), Letters)

\* the decimal digits of a natural number, as in an f-string
DigitChar(d) == <<"0", "1", "2", "3", "4", "5", "6", "7", "8", "9">>[d + 1]
RECURSIVE Decimal(_)
Decimal(n) == IF n < 10 THEN <<DigitChar(n)>> ELSE Decimal(n \div 10) \o <<DigitChar(n % 10)>>

\* the platforms list of search_email: name, type and the URL requested
\* (search_url, or check_url where there is no search_url)
EmailPlatforms(email) ==
    << [name |-> "Gmail", type |-> "email_provider",
        url |-> <<"https://accounts.google.com/gservicelogin">>],
       [name |-> "GitHub", type |-> "developer",
        url |-> <<"https://api.github.com/search/users?q=">> \o email],
       [name |-> "LinkedIn", type |-> "social",
        url |-> <<"https://www.linkedin.com/pub/dir?company=">>],
       [name |-> "Facebook", type |-> "social",
        url |-> <<"https://www.facebook.com/search/people/?q=">> \o email],
       [name |-> "Twitter", type |-> "social",
        url |-> <<"https://twitter.com/search?q=">> \o email],
       [name |-> "Instagram", type |-> "social",
        url |-> <<"https://instagram.com/">> \o Split(email, "@")[1]],
       [name |-> "Reddit", type |-> "forum",
        url |-> <<"https://www.reddit.com/search/?q=">> \o email] >>

\* a variant of EmailEntry for which every status below 400 is 'accessible'
EmailEntryBelow400(platform, r) ==
    IF r.raised
    THEN [platform |-> platform.name, type |-> platform.type,
          status |-> <<"error">>, error |-> <<"request failed">>]
    ELSE [platform |-> platform.name, type |-> platform.type, url |-> platform.url,
          status |-> (CASE r.status < 400 -> <<"accessible">>
                        [] r.status = 404 -> <<"not_found">>
                        [] OTHER -> <<"http_">> \o Decimal(r.status)),
          data |-> (IF r.status = 200 THEN [response_code |-> 200] ELSE EmptyDict)]

\* the body of the loop of search_email for one platform: the entry added
\* to results
EmailEntry(platform, r) ==
    IF r.raised
    THEN [platform |-> platform.name, type |-> platform.type,
          status |-> <<"error">>, error |-> <<"request failed">>]
    ELSE [platform |-> platform.name, type |-> platform.type, url |-> platform.url,
          status |-> (CASE r.status = 200 -> <<"accessible">>
                        [] r.status = 404 -> <<"not_found">>
                        [] OTHER -> <<"http_">> \o Decimal(r.status)),
          data |-> (IF r.status = 200 THEN [response_code |-> 200] ELSE EmptyDict)]

\* search_email: the result for an address that does not match
EmailInvalidResult(email) ==
    [query |-> email, error |-> "Invalid email format", results |-> <<>>, from_cache |-> FALSE]

\* search_email: the result built from the results list
EmailResult(email, results) ==
    [query |-> email, type |-> "email", email_domain |-> Split(email, "@")[2],
     results |-> results, total_checked |-> Len(EmailPlatforms(email)),
     success |-> (\E i \in 1..Len(results) : results[i].status = <<"accessible">>),
     from_cache |-> FALSE]

\* the platforms list of search_phone
PhonePlatforms(phone_clean) ==
    << [name |-> "WhatsApp Status", url |-> <<"https://wa.me/">> \o phone_clean,
        type |-> "messaging"],
       [name |-> "Viber", url |-> <<"viber://contact?number=">> \o phone_clean,
        type |-> "messaging"] >>

\* the body of the loop of search_phone for one platform
PhoneEntry(platform, phone) ==
    [platform |-> platform.name, url |-> platform.url, type |-> platform.type,
     status |-> (IF platform.type = "messaging" THEN <<"found">> ELSE <<"unknown">>),
     data |-> (IF platform.type = "messaging" THEN [phone |-> phone] ELSE EmptyDict)]

\* the results list search_phone builds
PhoneEntries(phone, phone_clean) ==
    [i \in 1..Len(PhonePlatforms(phone_clean)) |-> PhoneEntry(PhonePlatforms(phone_clean)[i], phone)]

\* search_phone: the result for a number without digits
PhoneInvalidResult(phone) ==
    [query |-> phone, error |-> "Invalid phone number format", results |-> <<>>,
     from_cache |-> FALSE]

\* search_phone: the result built from the results list
PhoneResult(phone, phone_clean, results) ==
    [query |-> phone, type |-> "phone", results |-> results,
     total_checked |-> Len(PhonePlatforms(phone_clean)),
     success |-> Len(results) > 0, from_cache |-> FALSE]


(***************************************************************************)
(* Domain and IP queries.                                                  *)
(***************************************************************************)
\* int(part) succeeds: optional surrounding whitespace, an optional sign,
\* then digits, single underscores allowed between digits
IntParses(part) ==
    LET t == Strip(part)
        u == IF Len(t) > 0 /\ t[1] \in {"+", "-"} THEN Tail(t) ELSE t
    IN  /\ Len(u) > 0
        /\ AllIn(u, Digits \cup {"_"})
        /\ u[1] # "_"
        /\ u[Len(u)] # "_"
        /\ \A i \in 1..(Len(u) - 1) : ~(u[i] = "_" /\ u[i + 1] = "_")

DigitValue(c) == CHOOSE d \in 0..9 : DigitChar(d) = c

RECURSIVE DigitsValue(_)
DigitsValue(u) ==
    IF u = <<>> THEN 0 ELSE 10 * DigitsValue(SubSeq(u, 1, Len(u) - 1)) + DigitValue(u[Len(u)])

\* int(part), for a part that parses
IntValue(part) ==
    LET t == Strip(part)
        negative == Len(t) > 0 /\ t[1] = "-"
        u == IF Len(t) > 0 /\ t[1] \in {"+", "-"} THEN Tail(t) ELSE t
        v == DigitsValue(SelectSeq(u, LAMBDA c : c # "_"))
    IN  IF negative THEN 0 - v ELSE v

\* is_valid_ip
IsValidIp(ip) ==
    LET parts == Split(ip, ".") IN
    /\ Len(parts) = 4
    /\ \A i \in 1..4 : IntParses(parts[i]) /\ 0 <= IntValue(parts[i]) /\ IntValue(parts[i]) <= 255

DomainLabelChars == LowerLetters \cup Digits \cup {"-"}

\* is_valid_domain:
\* re.match(r'^(?:[a-z0-9](?:[a-z0-9-]{0,61}[a-z0-9])?\.)*[a-z]{2,}$', domain.lower())
IsValidDomain(domain) ==
    \E t \in BeforeDollar(Lower(domain)) :
      LET labels == Split(t, ".")
          n == Len(labels)
      IN  /\ Len(labels[n]) >= 2
          /\ AllIn(labels[n], LowerLetters)
          /\ \A i \in 1..(n - 1) :
               /\ Len(labels[i]) >= 1
               /\ Len(labels[i]) <= 63
               /\ AllIn(labels[i], DomainLabelChars)
               /\ labels[i][1] # "-"
               /\ labels[i][Len(labels[i])] # "-"

\* '.'.join(parts)
RECURSIVE Join(_)
Join(parts) ==
    IF Len(parts) = 0 THEN <<>>
    ELSE IF Len(parts) = 1 THEN parts[1]
    ELSE parts[1] \o <<".">> \o Join(Tail(parts))

\* the names the resolver answers with
ResolvedHost == <<"host.example">>
ResolvedIp == <<"192.0.2.1">>
Unresolved == <<"Unable to resolve">>

\* get_domain_info; resolves says whether gethostbyaddr / gethostbyname
\* answers
GetDomainInfo(domain, resolves) ==
    IF IsValidIp(domain)
    THEN [query |-> domain, type |-> "domain",
          data |-> [type |-> <<"IP Address">>, ip |-> domain,
                    hostname |-> IF resolves THEN ResolvedHost ELSE Unresolved]]
    ELSE IF IsValidDomain(domain)
    THEN LET parts == Split(domain, ".")
             n == Len(parts)
             name == [type |-> <<"Domain Name">>, domain |-> domain,
                      ip_address |-> IF resolves THEN ResolvedIp ELSE Unresolved]
         IN  [query |-> domain, type |-> "domain",
              data |-> IF n > 2
                       THEN name @@ [subdomain |-> Join(SubSeq(parts, 1, n - 2)),
                                     main_domain |-> Join(SubSeq(parts, n - 1, n))]
                       ELSE name @@ [main_domain |-> domain]]
    ELSE [query |-> domain, type |-> "domain", data |-> EmptyDict,
          error |-> "Invalid domain or IP address format"]

\* answers to the request of check_domain_accessibility: an HTTP answer, or
\* the request raising a timeout, an SSL error or another exception
AccessAnswers == {"200", "500", "timeout", "ssl", "other"}

\* check_domain_accessibility (the domain never starts with a scheme here)
CheckDomainAccessibility(domain, answer) ==
    [domain |-> domain, url |-> <<"https://">> \o domain,
     data |-> CASE answer = "200" ->
                     [status_code |-> 200, accessible |-> TRUE,
                      content_type |-> <<"text/html">>, title |-> PageTitle, total_links |-> 0]
                [] answer = "500" ->
                     [status_code |-> 500, accessible |-> FALSE,
                      content_type |-> <<"text/html">>, title |-> PageTitle, total_links |-> 0]
                [] answer = "timeout" ->
                     [accessible |-> FALSE, error |-> <<"Request timeout">>]
                [] answer = "ssl" ->
                     [ssl_error |-> TRUE, accessible |-> FALSE]
                [] OTHER ->
                     [error |-> <<"request failed">>, accessible |-> FALSE]]

\* answers of the resolver to get_domain_dns_info: the name resolves, the
\* resolver raises socket.gaierror, or the call raises another exception
DnsAnswers == {"ok", "gaierror", "other"}

\* get_domain_dns_info
GetDomainDnsInfo(domain, answer) ==
    [domain |-> domain, type |-> "dns_info",
     data |-> CASE answer = "ok" -> [a_record |-> ResolvedIp, all_ips |-> <<ResolvedIp>>]
                [] answer = "gaierror" -> [a_record |-> <<"Not found">>, all_ips |-> <<>>]
                [] OTHER -> [error |-> <<"lookup failed">>]]

\* analyze_domain_complete: the result built from the analyses
DomainResult(query, analyses) ==
    [query |-> query, type |-> "domain_analysis", analyses |-> analyses,
     success |-> Len(analyses) > 0, from_cache |-> FALSE]


(***************************************************************************)
(* The state.                                                              *)
(***************************************************************************)
VARIABLES
    store,      \* the cache directory: cache key -> [content, mtime]
    now,        \* the clock, in hours
    faulty,     \* whether file-system calls of the cache may fail
    cur,        \* the resolve call in progress, or the last one made
    prev,       \* the call made just before cur, if it was made with the same
                \* identifier and type, less than the expiry time before cur,
                \* and was not served from the cache; no call otherwise
    waiting,    \* search_username: the scrapers whose request is outstanding
    responses,  \* search_username: the list asyncio.gather is filling
    acc,        \* the results / analyses list being built by the call
    keys,       \* the cache keys the calls made so far have asked the cache for
    api,        \* the last direct call of cache.get / set / clear and its return
    was,        \* the direct call of the cache made before api
    writer,     \* the cache.set a second process is in the middle of, if any
    img,        \* the last call of extract_images_from_result and its return
    unit,       \* the last call of a function that was called on its own: the
                \* function, its arguments and what it returned
    lobby_open,         \* bot.py: the chats whose lobby is open
    participants_lobby, \* bot.py: chat -> the users who joined, in the order
                        \* their keys were inserted into the dictionary
    lobby_message_id,   \* bot.py: chat -> the message that carries the button
    stop,       \* the calls of cmd_stop_lottery under way: where each is
                \* suspended, what it holds and what it replied last
    lot,        \* what the chat has seen of the lobbies
    state,      \* the state the dispatcher's storage holds for the user
    turn        \* the last message of the user and what the bot did with it

\* the state of the front end (src/core/bot.py)
front == <<lobby_open, participants_lobby, lobby_message_id, stop, lot, state, turn>>

\* the state of the core
back == <<store, now, faulty, cur, prev, waiting, responses, acc, keys, api, was, writer, img,
          unit>>

vars == <<back, front>>

\* what the resolve calls leave alone
sides == <<api, was, writer, img, unit, front>>

\* no direct call of the cache has been made
NoApi == [op |-> "none", query |-> <<>>, type |-> "none", payload |-> EmptyDict,
          ret |-> None, raised |-> FALSE, old |-> -1, at |-> 0]

\* no call of extract_images_from_result has been made
NoImages == [result |-> EmptyDict, images |-> {}]

\* no function has been called on its own
NoUnit == [fn |-> "none"]

\* the raw identifiers the front end hands to the core
UsernameInputs == {<<"a">>, <<"A">>, <<"@", "a">>, <<"@">>, <<>>}
PhoneInputs == {<<"1">>, <<"+", "1">>, <<"+">>, <<>>}
EmailInputs ==
    {<<"a", "@", "b", ".", "c", "c">>, <<"a", "@", "b">>, <<"a", "b">>,
     <<"a", "@", "b", ".", "c">>}
DomainInputs ==
    {<<"a", ".", "b", "c">>, <<"b", "c">>, <<"1", ".", "1", ".", "1", ".", "1">>,
     <<"#", "#", "b", "a", "d", "#", "#">>,
     <<"a", ".", "b", ".", "c", ".", "9", "9", "9">>}

NoResult == EmptyDict

\* no call has been made
NoCall ==
    [type |-> "none", raw |-> <<>>, query |-> <<>>, status |-> "none", ret |-> NoResult,
     reads |-> 0, writes |-> 0, probes |-> 0, tcall |-> 0, mtime |-> -1, net |-> "up",
     age |-> -1, swapped |-> FALSE, raisedAt |-> {}]

\* a call that has just begun: tcall is the time of the call, age the age
\* of the cache file of its key when the cache was read (-1: no file),
\* mtime the modification time of the file it was served from or wrote
\* (-1: none), reads / writes / probes the cache.get calls, cache.set calls
\* and outgoing requests it has made, swapped whether a scraper has found a
\* profile after a scraper registered behind it had found one, raisedAt
\* the places in the platform list of the e-mail requests that raised
NewCall(type, raw, query) ==
    [type |-> type, raw |-> raw, query |-> query, status |-> "running", ret |-> NoResult,
     reads |-> 0, writes |-> 0, probes |-> 0, tcall |-> now, mtime |-> -1, net |-> "up",
     age |-> -1, swapped |-> FALSE, raisedAt |-> {}]

\* the call returns result
Returned(call, result) == [call EXCEPT !.status = "returned", !.ret = result]

\* an exception leaves the call
Escaped(call) == [call EXCEPT !.status = "raised"]

\* where the file system may fail the network is kept simple: the scrapers
\* answer in registration order and at most one of them finds a profile,
\* the e-mail platforms all answer alike, and no lookup of a domain fails
Overtakes == IF faulty THEN 0 ELSE MaxOvertakes
FoundBound == IF faulty THEN 1 ELSE MaxFound
DeviationBound == IF faulty THEN 0 ELSE MaxDeviations
LookupFailureBound == IF faulty THEN 0 ELSE MaxLookupFailures

\* the outcomes of the file-system calls a call of a search function makes:
\* none fails where the file system is reliable or the identifier is
\* rejected before the cache is asked; without a file for the key
\* cache.get only calls exists()
LookupChoices(valid, query, search_type) ==
    IF ~faulty \/ ~valid
    THEN {NoFaults}
    ELSE IF GetCacheKey(query, search_type) \in DOMAIN store
    THEN {NoFaults} \cup ReadFaults
    ELSE {NoFaults, [NoFaults EXCEPT !.exists = "raise"]}

\* the outcomes of the file-system calls of cache.set
WriteChoices == IF faulty THEN {NoFaults} \cup WriteFaults ELSE {NoFaults}

\* the states of the network a call of search_email may meet
NetChoices(valid) == IF valid THEN {"up", "down"} ELSE {"up"}

\* a call that may add a file to the directory is made only while there is
\* room
Room(query, search_type) ==
    \/ GetCacheKey(query, search_type) \in keys
    \/ Cardinality(keys) < MaxEntries

\* the keys asked for once a call has been made
Asked(valid, query, search_type) ==
    IF valid THEN keys \cup {GetCacheKey(query, search_type)} ELSE keys

\* the modification time of the file of a key, -1 if there is none
MtimeOf(dir, query, search_type) ==
    IF GetCacheKey(query, search_type) \in DOMAIN dir
    THEN dir[GetCacheKey(query, search_type)].mtime
    ELSE -1

Idle == cur.status # "running"

\* the last call, if it was made with this identifier and type less than
\* the expiry time ago and was not served from the cache; it is recorded
\* where the file system is reliable
Before(type, raw) ==
    IF /\ ~faulty
       /\ cur.type = type
       /\ cur.raw = raw
       /\ cur.status = "returned"
       /\ ~cur.ret.from_cache
       /\ now - cur.tcall < CACHE_EXPIRY_HOURS
    THEN cur
    ELSE NoCall

\* the group chat the lottery runs in
Chat == "group"

\* the calls of cmd_stop_lottery that may be under way
Stoppers == 1..MaxStops

\* no call of cmd_stop_lottery: pc is where the call is suspended, lobby
\* the number of lobbies opened when it began, admin what the check of the
\* sender's status gave, participants and distribution its local lists,
\* said its last reply
NoStop ==
    [pc |-> "idle", lobby |-> 0, admin |-> "unchecked", participants |-> <<>>,
     distribution |-> <<>>, said |-> "none"]

\* the join button has not been pressed
NoJoin == [user |-> 0, open |-> FALSE, recorded |-> FALSE, confirmed |-> FALSE]

\* no distribution has been sent to the chat
NoResults == [participants |-> <<>>, distribution |-> <<>>]

\* no lobby yet: lobbies counts the lobbies opened, posting says that
\* cmd_random_lottery is sending the lobby message, posted lists the
\* lobbies of the distributions the chat has been sent, results is the
\* last of these distributions with the participants it was made from,
\* joined is the last press of the button
NoLot ==
    [lobbies |-> 0, posting |-> FALSE, posted |-> <<>>, results |-> NoResults,
     joined |-> NoJoin]

\* no message of the user has been handled: handler is the handler the
\* dispatcher gave the message to, before the state it found, searches the
\* search functions the handler called, raised whether an exception left it
NoTurn ==
    [handler |-> "none", text |-> <<>>, before |-> "none", searches |-> <<>>,
     raised |-> FALSE]

InitFront ==
    /\ lobby_open = {}
    /\ participants_lobby = [c \in {} |-> <<>>]
    /\ lobby_message_id = [c \in {} |-> 0]
    /\ stop = [h \in Stoppers |-> NoStop]
    /\ lot = NoLot
    /\ state = "none"
    /\ turn = NoTurn

InitCommon ==
    /\ store = [k \in {} |-> NoResult]
    /\ now = 0
    /\ cur = NoCall
    /\ prev = NoCall
    /\ waiting = {}
    /\ responses = <<>>
    /\ acc = <<>>
    /\ keys = {}
    /\ api = NoApi
    /\ was = NoApi
    /\ writer = None
    /\ img = NoImages
    /\ unit = NoUnit
    /\ InitFront

Init == InitCommon /\ faulty = FALSE

InitFaults == InitCommon /\ faulty = TRUE

\* time passes between calls: a call lasts seconds, the clock counts hours
Tick ==
    /\ Idle
    /\ now + TickHours <= MaxClock
    /\ now' = now + TickHours
    /\ UNCHANGED <<store, faulty, cur, prev, waiting, responses, acc, keys, sides>>

\* the part of a resolve call from the cache lookup to the return on a hit:
\* the call after the lookup, and the directory
Lookup(call, io) ==
    LET g == CacheGet(store, call.query, call.type, now, io)
        before == MtimeOf(store, call.query, call.type)
        looked == [call EXCEPT !.reads = 1,
                               !.age = IF before < 0 THEN -1 ELSE now - before]
    IN  IF g.raised
        THEN [dir |-> g.dir, call |-> Escaped(looked)]
        ELSE IF Truthy(g.value)
        THEN [dir |-> g.dir,
              call |-> Returned([looked EXCEPT !.mtime = MtimeOf(g.dir, call.query, call.type)],
                                FromCache(g.value.value))]
        ELSE [dir |-> g.dir, call |-> looked]

\* a variant of Persist in which a failed cache.set raises
PersistRaising(call, result, io) ==
    LET s == CacheSet(store, call.query, call.type, result, now, io)
        after == [call EXCEPT !.writes = call.writes + 1,
                              !.mtime = IF s.value THEN now ELSE -1]
    IN  [dir |-> s.dir,
         call |-> IF s.value THEN Returned(after, result) ELSE Escaped(after)]

\* a variant of Persist that stores only a result whose success is true
PersistSuccessfulOnly(call, result, io) ==
    LET s == CacheSet(store, call.query, call.type, result, now, io) IN
    IF result.success
    THEN [dir |-> s.dir,
          call |-> Returned([call EXCEPT !.writes = call.writes + 1,
                                         !.mtime = IF s.value THEN now ELSE -1],
                            result)]
    ELSE [dir |-> store, call |-> Returned(call, result)]

\* the end of a resolve call on a miss: cache.set(query, type, result) and
\* the return of result
Persist(call, result, io) ==
    LET s == CacheSet(store, call.query, call.type, result, now, io) IN
    [dir |-> s.dir,
     call |-> Returned([call EXCEPT !.writes = call.writes + 1,
                                    !.mtime = IF s.value THEN now ELSE -1],
                       result)]


(***************************************************************************)
(* search_username                                                         *)
(***************************************************************************)
\* the call up to its first suspension: the username is cleaned, the cache
\* is read and, on a miss, scrape_username_info starts every scraper
SearchUsername(raw, io) ==
    /\ Idle
    /\ CleanUsername(raw) # <<>> => Room(CleanUsername(raw), "username")
    /\ prev' = Before("username", raw)
    /\ acc' = <<>>
    /\ LET username == CleanUsername(raw)
           call == NewCall("username", raw, username)
           l == Lookup(call, io)
           started == CleanUsername(username) # <<>>
       IN  IF username = <<>>
           THEN /\ cur' = Returned(call, UsernameEmptyResult)
                /\ waiting' = {}
                /\ responses' = <<>>
                /\ UNCHANGED store
           ELSE /\ store' = l.dir
                /\ IF l.call.status = "running"
                   THEN /\ cur' = [l.call EXCEPT !.probes = IF started THEN Len(Scrapers) ELSE 0]
                        /\ waiting' = IF started THEN 1..Len(Scrapers) ELSE {}
                        /\ responses' = IF started THEN [i \in 1..Len(Scrapers) |-> Pending]
                                        ELSE <<>>
                   ELSE /\ cur' = l.call
                        /\ waiting' = {}
                        /\ responses' = <<>>
    /\ keys' = Asked(CleanUsername(raw) # <<>>, CleanUsername(raw), "username")
    /\ UNCHANGED <<now, faulty, sides>>

\* the number of scrapers of the call that have found a profile
FoundSoFar == Cardinality({i \in 1..Len(responses) :
                              ~responses[i].pending /\ Truthy(responses[i].result)})

\* the place of a platform in the registration order
PlatformIndex(name) == CHOOSE i \in 1..Len(Scrapers) : Scrapers[i] = name

\* scraper i finds a profile with answer r after a scraper registered
\* behind it has found one
OvertakenBy(i, r) ==
    /\ Truthy(Scrape(i, CleanUsername(cur.query), r))
    /\ \E k \in 1..Len(responses) :
          /\ ~responses[k].pending
          /\ Truthy(responses[k].result)
          /\ PlatformIndex(responses[k].result.value.platform) > i

\* the scrapers that have answered while a scraper registered ahead of them
\* is among the outstanding ones
Ahead(outstanding) ==
    {k \in (1..Len(Scrapers)) \ outstanding : \E j \in outstanding : j < k}


\* the request of scraper i is answered and its scrape returns
ScraperReturns(i, r) ==
    /\ cur.status = "running"
    /\ cur.type = "username"
    /\ i \in waiting
    /\ Cardinality(Ahead(waiting \ {i})) <= Overtakes
    /\ LET v == Scrape(i, CleanUsername(cur.query), r) IN
       /\ Truthy(v) => FoundSoFar < FoundBound
       /\ responses' = GatherPut(responses, i, v)
    /\ waiting' = waiting \ {i}
    /\ cur' = [cur EXCEPT !.swapped = cur.swapped \/ OvertakenBy(i, r)]
    /\ UNCHANGED <<store, now, faulty, prev, acc, keys, sides>>

\* asyncio.gather returns: the responses are collected, the result is
\* built, cached and returned
UsernameCollect(io) ==
    /\ cur.status = "running"
    /\ cur.type = "username"
    /\ waiting = {}
    /\ LET analyses == CollectResponses(responses)
           p == Persist(cur, UsernameResult(cur.query, analyses), io)
       IN  /\ acc' = analyses
           /\ store' = p.dir
           /\ cur' = p.call
    /\ UNCHANGED <<now, faulty, prev, waiting, responses, keys, sides>>

(***************************************************************************)
(* search_email                                                            *)
(***************************************************************************)
\* a variant of SearchEmail that reads the cache before it validates
SearchEmailLookupFirst(raw, io, net) ==
    /\ Idle
    /\ EmailMatches(raw) => Room(raw, "email")
    /\ prev' = Before("email", raw)
    /\ acc' = <<>>
    /\ LET l == Lookup([NewCall("email", raw, raw) EXCEPT !.net = net], io) IN
       /\ store' = l.dir
       /\ cur' = IF l.call.status # "running" THEN [l.call EXCEPT !.net = "up"]
                 ELSE IF ~EmailMatches(raw)
                 THEN Returned([l.call EXCEPT !.net = "up"], EmailInvalidResult(raw))
                 ELSE l.call
    /\ waiting' = {}
    /\ responses' = <<>>
    /\ keys' = Asked(EmailMatches(raw), raw, "email")
    /\ UNCHANGED <<now, faulty, sides>>

\* the call up to its first request
SearchEmail(raw, io, net) ==
    /\ Idle
    /\ EmailMatches(raw) => Room(raw, "email")
    /\ prev' = Before("email", raw)
    /\ acc' = <<>>
    /\ LET call == [NewCall("email", raw, raw) EXCEPT !.net = net]
           l == Lookup(call, io)
       IN  IF ~EmailMatches(raw)
           THEN /\ cur' = Returned([call EXCEPT !.net = "up"], EmailInvalidResult(raw))
                /\ UNCHANGED store
           ELSE /\ store' = l.dir
                /\ cur' = IF l.call.status = "running" THEN l.call
                          ELSE [l.call EXCEPT !.net = "up"]
    /\ waiting' = {}
    /\ responses' = <<>>
    /\ keys' = Asked(EmailMatches(raw), raw, "email")
    /\ UNCHANGED <<now, faulty, sides>>

\* the number of entries so far whose status is not 'accessible'
Deviations == Cardinality({i \in 1..Len(acc) : acc[i].status # <<"accessible">>})

\* a variant of EmailProbe in which a request that raises ends the loop
EmailProbeAborting(r) ==
    /\ cur.status = "running"
    /\ cur.type = "email"
    /\ Len(acc) < Len(EmailPlatforms(cur.raw))
    /\ IF cur.net = "down"
       THEN r = Raised
       ELSE r # Http(200, FALSE, FALSE) => Deviations < DeviationBound
    /\ IF r.raised
       THEN LET p == Persist([cur EXCEPT !.probes = cur.probes + 1,
                                         !.raisedAt = cur.raisedAt \cup {Len(acc) + 1}],
                             EmailResult(cur.raw, acc), NoFaults)
            IN  /\ store' = p.dir
                /\ cur' = p.call
                /\ acc' = acc
       ELSE /\ acc' = Append(acc, EmailEntry(EmailPlatforms(cur.raw)[Len(acc) + 1], r))
            /\ cur' = [cur EXCEPT !.probes = cur.probes + 1]
            /\ UNCHANGED store
    /\ UNCHANGED <<now, faulty, prev, waiting, responses, keys, sides>>

\* one turn of the loop over the platforms: the request to the next
\* platform is made and answered, or raises
EmailProbe(r) ==
    /\ cur.status = "running"
    /\ cur.type = "email"
    /\ Len(acc) < Len(EmailPlatforms(cur.raw))
    /\ IF cur.net = "down"
       THEN r = Raised
       ELSE r # Http(200, FALSE, FALSE) => Deviations < DeviationBound
    /\ acc' = Append(acc, EmailEntry(EmailPlatforms(cur.raw)[Len(acc) + 1], r))
    /\ cur' = [cur EXCEPT !.probes = cur.probes + 1,
                          !.raisedAt = IF r.raised THEN cur.raisedAt \cup {Len(acc) + 1}
                                       ELSE cur.raisedAt]
    /\ UNCHANGED <<store, now, faulty, prev, waiting, responses, keys, sides>>

\* the loop is over: the result is built, cached and returned
EmailFinish(io) ==
    /\ cur.status = "running"
    /\ cur.type = "email"
    /\ Len(acc) = Len(EmailPlatforms(cur.raw))
    /\ LET p == Persist(cur, EmailResult(cur.raw, acc), io) IN
       /\ store' = p.dir
       /\ cur' = p.call
    /\ UNCHANGED <<now, faulty, prev, waiting, responses, acc, keys, sides>>

(***************************************************************************)
(* search_phone                                                            *)
(***************************************************************************)
\* the whole call: it makes no request and so never suspends
SearchPhone(raw, io) ==
    /\ Idle
    /\ DigitsOnly(raw) # <<>> => Room(DigitsOnly(raw), "phone")
    /\ prev' = Before("phone", raw)
    /\ LET phone_clean == DigitsOnly(raw)
           call == NewCall("phone", raw, phone_clean)
           l == Lookup(call, io)
           results == PhoneEntries(raw, phone_clean)
       IN  IF phone_clean = <<>>
           THEN /\ cur' = Returned(call, PhoneInvalidResult(raw))
                /\ acc' = <<>>
                /\ UNCHANGED store
           ELSE IF l.call.status # "running"
           THEN /\ cur' = l.call
                /\ acc' = <<>>
                /\ store' = l.dir
           ELSE LET s == CacheSet(l.dir, phone_clean, "phone",
                                  PhoneResult(raw, phone_clean, results), now, io)
                IN  /\ store' = s.dir
                    /\ acc' = results
                    /\ cur' = Returned([l.call EXCEPT !.writes = 1,
                                                      !.mtime = IF s.value THEN now ELSE -1],
                                       PhoneResult(raw, phone_clean, results))
    /\ waiting' = {}
    /\ responses' = <<>>
    /\ keys' = Asked(DigitsOnly(raw) # <<>>, DigitsOnly(raw), "phone")
    /\ UNCHANGED <<now, faulty, sides>>

(***************************************************************************)
(* analyze_domain_complete                                                 *)
(***************************************************************************)
\* the rest of the call once the accessibility check is over or skipped:
\* get_domain_dns_info, the result, cache.set and the return
DomainFinish(call, analyses, dns, io) ==
    /\ acc' = Append(analyses, GetDomainDnsInfo(call.query, dns))
    /\ LET p == Persist([call EXCEPT !.probes = call.probes + 1],
                        DomainResult(call.query, acc'), io)
       IN  /\ store' = p.dir
           /\ cur' = p.call

\* the number of lookups that fail among those of one domain call
LookupFailures(resolves, answer, dns) ==
    (IF resolves THEN 0 ELSE 1) + (IF answer = "200" THEN 0 ELSE 1)
       + (IF dns = "ok" THEN 0 ELSE 1)

\* whether the name resolution of the call in progress has answered
Resolved ==
    \/ "error" \in DOMAIN acc[1]
    \/ Unresolved \notin {acc[1].data[f] : f \in DOMAIN acc[1].data}

\* the call up to its first suspension: the cache is read and, on a miss,
\* get_domain_info runs; a query without a dot goes on to the end
AnalyzeDomain(raw, io, resolves, dns) ==
    /\ Idle
    /\ Room(Strip(raw), "domain")
    /\ LookupFailures(resolves, "200", dns) <= LookupFailureBound
    /\ prev' = Before("domain", raw)
    /\ LET query == Strip(raw)
           call == NewCall("domain", raw, query)
           l == Lookup(call, io)
           info == GetDomainInfo(query, resolves)
           lookups == IF "error" \in DOMAIN info THEN 0 ELSE 1
       IN  IF l.call.status # "running"
           THEN /\ cur' = l.call
                /\ acc' = <<>>
                /\ store' = l.dir
           ELSE IF Contains(query, ".")
           THEN /\ cur' = [l.call EXCEPT !.probes = lookups + 1]
                /\ acc' = <<info>>
                /\ store' = l.dir
           ELSE DomainFinish([l.call EXCEPT !.probes = lookups], <<info>>, dns, io)
    /\ waiting' = {}
    /\ responses' = <<>>
    /\ keys' = Asked(TRUE, Strip(raw), "domain")
    /\ UNCHANGED <<now, faulty, sides>>

\* check_domain_accessibility returns; the call goes on to the end
DomainAccessReturns(answer, dns, io) ==
    /\ cur.status = "running"
    /\ cur.type = "domain"
    /\ LookupFailures(Resolved, answer, dns) <= LookupFailureBound
    /\ DomainFinish(cur, Append(acc, CheckDomainAccessibility(cur.query, answer)), dns, io)
    /\ UNCHANGED <<now, faulty, prev, waiting, responses, keys, sides>>

Next ==
    \/ Tick
    \/ \E raw \in UsernameInputs :
          \E io \in LookupChoices(CleanUsername(raw) # <<>>, CleanUsername(raw), "username") :
             SearchUsername(raw, io)
    \/ \E i \in 1..Len(Scrapers) : \E r \in Answers : ScraperReturns(i, r)
    \/ \E io \in WriteChoices : UsernameCollect(io)
    \/ \E raw \in EmailInputs :
          \E io \in LookupChoices(EmailMatches(raw), raw, "email") :
             \E net \in NetChoices(EmailMatches(raw)) : SearchEmail(raw, io, net)
    \/ \E r \in StatusAnswers : EmailProbe(r)
    \/ \E io \in WriteChoices : EmailFinish(io)
    \/ \E raw \in PhoneInputs :
          \E io \in LookupChoices(DigitsOnly(raw) # <<>>, DigitsOnly(raw), "phone")
                       \cup (IF DigitsOnly(raw) # <<>> THEN WriteChoices ELSE {}) :
             SearchPhone(raw, io)
    \/ \E raw \in DomainInputs :
          \E io \in LookupChoices(TRUE, Strip(raw), "domain")
                       \cup (IF Contains(Strip(raw), ".") THEN {} ELSE WriteChoices) :
             \E resolves \in BOOLEAN :
                \E dns \in (IF Contains(Strip(raw), ".") THEN {"ok"} ELSE DnsAnswers) :
                   AnalyzeDomain(raw, io, resolves, dns)
    \/ \E answer \in AccessAnswers : \E dns \in DnsAnswers : \E io \in WriteChoices :
          DomainAccessReturns(answer, dns, io)

Spec == Init /\ [][Next]_vars

SpecFaults == InitFaults /\ [][Next]_vars


(***************************************************************************)
(* search_username alone, called with more raw usernames.                  *)
(***************************************************************************)
\* raw usernames as a chat message carries them: with or without '@', with
\* or without whitespace around them
RawUsernames == UsernameInputs \cup {<<" ", "@", "a">>, <<" ", "@">>, <<"@", " ", "a">>}

NextUsername ==
    \/ Tick
    \/ \E raw \in RawUsernames : SearchUsername(raw, NoFaults)
    \/ \E i \in 1..Len(Scrapers) : \E r \in Answers : ScraperReturns(i, r)
    \/ UsernameCollect(NoFaults)

SpecUsername == Init /\ [][NextUsername]_vars


(***************************************************************************)
(* The loop of search_email on its own: each platform answers with one of  *)
(* the outcomes of a request, in any combination.                          *)
(***************************************************************************)
\* the outcomes of one request: it raises, or it is answered with a status
Outcomes == {Raised} \cup {Http(status, FALSE, FALSE) : status \in {200, 301, 404, 500}}

\* the address the loop is run for
ProbedEmail == <<"a", "@", "b", ".", "c", "c">>

\* the results list after the first Len(answers) turns of the loop, in
\* which platform i met outcome answers[i]
EmailEntries(email, answers) ==
    [i \in 1..Len(answers) |-> EmailEntry(EmailPlatforms(email)[i], answers[i])]

\* the outcomes met so far by the loop in progress
OutcomesSoFar == IF unit.fn = "search_email" THEN unit.arg ELSE <<>>

\* one turn of the loop of search_email (lines 90-119): the request to the
\* next platform meets outcome r; value is the result as lines 121-129
\* build it from the results list
EmailTurn(r) ==
    /\ Len(OutcomesSoFar) < Len(EmailPlatforms(ProbedEmail))
    /\ LET answers == Append(OutcomesSoFar, r) IN
       unit' = [fn |-> "search_email", arg |-> answers,
                value |-> EmailResult(ProbedEmail, EmailEntries(ProbedEmail, answers))]
    /\ UNCHANGED <<store, now, faulty, cur, prev, waiting, responses, acc, keys, api, was,
                   writer, img, front>>

NextEmailLoop == \E r \in Outcomes : EmailTurn(r)

SpecEmailLoop == Init /\ [][NextEmailLoop]_vars


(***************************************************************************)
(* The classification of a query as an IP address or a domain name, on its *)
(* own.                                                                    *)
(***************************************************************************)
\* what may stand before the first dot of a query
FirstParts ==
    {<<"1">>, <<"2", "5", "5">>, <<"2", "5", "6">>, <<"+", "1">>, <<"-", "0">>,
     <<"1", "_", "0">>, <<" ", "1">>, <<"0", "1">>, <<>>, <<"a", "b">>}

\* what may stand between the later dots
LaterParts == {<<"1">>, <<"2", "5", "6">>, <<"b", "c">>}

\* the queries classified: four dot-separated parts, and some with fewer
\* or more parts
ClassifiedQueries ==
    {Join(<<p, q, r, t>>) : p \in FirstParts, q \in LaterParts, r \in LaterParts, t \in LaterParts}
      \cup {Join(<<p, q, r>>) : p \in FirstParts, q \in LaterParts, r \in LaterParts}
      \cup {Join(<<p, <<"1">>, <<"1">>, <<"1">>, q>>) : p \in FirstParts, q \in LaterParts}
      \cup FirstParts

\* is_valid_ip(query), is_valid_domain(query) and get_domain_info(query)
Classify(query) ==
    /\ unit' = [fn |-> "get_domain_info", arg |-> query,
                value |-> [ip |-> IsValidIp(query), domain |-> IsValidDomain(query),
                           info |-> GetDomainInfo(query, TRUE)]]
    /\ UNCHANGED <<store, now, faulty, cur, prev, waiting, responses, acc, keys, api, was,
                   writer, img, front>>

NextClassify == \E query \in ClassifiedQueries : Classify(query)

SpecClassify == Init /\ [][NextClassify]_vars


(***************************************************************************)
(* One scraper on its own, against every answer its request may get.       *)
(***************************************************************************)
\* the answers to the request of a scraper: it raises, or a page comes
\* with a status
ScrapeAnswers ==
    {Raised} \cup {Http(status, n, m) :
                      status \in {200, 301, 403, 404, 500}, n \in BOOLEAN, m \in BOOLEAN}

\* scraper.scrape(session) of the i-th scraper, whose request gets answer r
ScrapeAlone(i, username, r) ==
    /\ unit' = [fn |-> "scrape", arg |-> [platform |-> Scrapers[i], answer |-> r],
                value |-> Scrape(i, username, r)]
    /\ UNCHANGED <<store, now, faulty, cur, prev, waiting, responses, acc, keys, api, was,
                   writer, img, front>>

NextScrape ==
    \E i \in 1..Len(Scrapers) : \E username \in {<<"a">>} : \E r \in ScrapeAnswers :
       ScrapeAlone(i, username, r)

SpecScrape == Init /\ [][NextScrape]_vars


(***************************************************************************)
(* The cache called directly: get, set and clear as one process calls      *)
(* them, one after the other.                                              *)
(***************************************************************************)
\* the words of the JSON text json.dump writes for a result: its keys, the
\* keys of its entries and of their data, and the type and platform names
JsonWords(data) ==
    LET entries == IF "analyses" \in DOMAIN data THEN data.analyses
                   ELSE IF "results" \in DOMAIN data THEN data.results
                   ELSE <<>>
        Named(d, k) == IF k \in DOMAIN d THEN {d[k]} ELSE {}
    IN  DOMAIN data \cup Named(data, "type")
          \cup UNION {DOMAIN entries[i] \cup Named(entries[i], "type")
                         \cup Named(entries[i], "platform")
                         \cup (IF "data" \in DOMAIN entries[i]
                               THEN DOMAIN entries[i].data ELSE {}) :
                      i \in 1..Len(entries)}

\* the words of the results in which a search type occurs as a substring,
\* letter case ignored
WordsContaining(search_type) ==
    CASE search_type = "username" -> {"username"}
      [] search_type = "email" -> {"email", "email_domain", "email_provider"}
      [] search_type = "phone" -> {"phone"}
      [] search_type = "domain" ->
            {"domain", "email_domain", "domain_analysis", "main_domain", "subdomain"}
      [] OTHER -> {}

\* search_type.lower() in cache_file.read_text().lower(); a truncated file
\* has no text
Mentions(content, search_type) ==
    /\ content.valid
    /\ JsonWords(content.data) \cap WordsContaining(search_type) # {}

\* a variant of CacheClear whose loop ends after the first file
CacheClearFirstOnly(dir, search_type) ==
    LET matching == {k \in DOMAIN dir :
                        search_type.none \/ Mentions(dir[k].content, search_type.value)}
        deleted == IF matching = {} THEN {} ELSE {CHOOSE k \in matching : TRUE}
    IN  [dir |-> [k \in DOMAIN dir \ deleted |-> dir[k]],
         value |-> Cardinality(deleted)]

\* OSINTCache.clear: the directory after the call and the count returned;
\* search_type is None or Some(type)
CacheClear(dir, search_type) ==
    LET deleted == {k \in DOMAIN dir :
                       search_type.none \/ Mentions(dir[k].content, search_type.value)}
    IN  [dir |-> [k \in DOMAIN dir \ deleted |-> dir[k]],
         value |-> Cardinality(deleted)]

\* the queries, types and payloads of the direct calls
ApiQueries == {<<"a">>, <<"A">>}
ApiTypes == {"email", "domain"}
EmailPayload ==
    EmailResult(<<"a", "@", "b", ".", "c", "c">>,
                [i \in 1..7 |-> EmailEntry(EmailPlatforms(<<"a", "@", "b", ".", "c", "c">>)[i],
                                           Http(200, FALSE, FALSE))])
DomainPayload ==
    DomainResult(<<"b", "c">>,
                 <<GetDomainInfo(<<"b", "c">>, TRUE), GetDomainDnsInfo(<<"b", "c">>, "ok")>>)
Payloads == {EmailPayload, DomainPayload}

\* a direct call, recorded with the time it is made at and with the
\* modification time the file of its key had before it (-1: no file, or a
\* call of clear); raised says that the call was left by an exception
ApiCall(op, query, type, payload, ret, raised) ==
    [op |-> op, query |-> query, type |-> type, payload |-> payload, ret |-> ret,
     raised |-> raised,
     old |-> IF op = "clear" THEN -1 ELSE MtimeOf(store, query, type),
     at |-> now]

\* what the direct calls of the cache leave alone
resolver == <<cur, prev, waiting, responses, acc, keys>>

\* cache.get(query, search_type)
ApiGet(query, search_type, io) ==
    /\ LET g == CacheGet(store, query, search_type, now, io) IN
       /\ store' = g.dir
       /\ api' = ApiCall("get", query, search_type, EmptyDict, g.value, g.raised)
    /\ was' = api
    /\ UNCHANGED <<now, faulty, resolver, writer, img, unit, front>>

\* cache.set(query, search_type, data)
ApiSet(query, search_type, data, io) ==
    /\ LET s == CacheSet(store, query, search_type, data, now, io) IN
       /\ store' = s.dir
       /\ api' = ApiCall("set", query, search_type, data, s.value, FALSE)
    /\ was' = api
    /\ UNCHANGED <<now, faulty, resolver, writer, img, unit, front>>

\* cache.clear(search_type), cache.clear()
ApiClear(search_type) ==
    /\ LET c == CacheClear(store, search_type) IN
       /\ store' = c.dir
       /\ api' = ApiCall("clear", <<>>, IF search_type.none THEN "none" ELSE search_type.value,
                         EmptyDict, c.value, FALSE)
    /\ was' = api
    /\ UNCHANGED <<now, faulty, resolver, writer, img, unit, front>>

NextCache ==
    \/ Tick
    \/ \E query \in ApiQueries : \E search_type \in ApiTypes :
          \E io \in LookupChoices(TRUE, query, search_type) : ApiGet(query, search_type, io)
    \/ \E query \in ApiQueries : \E search_type \in ApiTypes : \E data \in Payloads :
          \E io \in WriteChoices : ApiSet(query, search_type, data, io)
    \/ \E search_type \in {None} \cup {Some(t) : t \in ApiTypes} : ApiClear(search_type)

SpecCache == Init /\ [][NextCache]_vars

\* cache.set on a file system whose open() and write may fail, followed by
\* cache.get
NextCacheFaults ==
    \/ Tick
    \/ \E query \in ApiQueries : ApiGet(query, "email", NoFaults)
    \/ \E query \in ApiQueries : \E data \in Payloads : \E io \in WriteChoices :
          ApiSet(query, "email", data, io)

SpecCacheFaults == InitFaults /\ [][NextCacheFaults]_vars


(***************************************************************************)
(* The cache directory shared with a second process.  OSINTCache.set is    *)
(* open(cache_file, 'w') followed by json.dump: the file is truncated when *)
(* it is opened and complete when it is closed.  Inside one process get    *)
(* and set are synchronous calls on one event loop and never overlap; a    *)
(* second process working on the same data/cache directory runs its calls  *)
(* between those two steps.  writer is the set in progress.                *)
(***************************************************************************)
\* the entry a key has in the directory, if any
EntryOf(dir, query, search_type) ==
    IF GetCacheKey(query, search_type) \in DOMAIN dir
    THEN Some(dir[GetCacheKey(query, search_type)])
    ELSE None

\* open(cache_file, 'w', encoding='utf-8'): the file exists and is empty
SetOpens(query, search_type, data) ==
    /\ writer = None
    /\ writer' = Some([query |-> query, type |-> search_type, payload |-> data,
                       before |-> EntryOf(store, query, search_type)])
    /\ store' = (GetCacheKey(query, search_type) :>
                    [content |-> TruncatedDocument, mtime |-> now])
                @@ [k \in DOMAIN store \ {GetCacheKey(query, search_type)} |-> store[k]]
    /\ UNCHANGED <<now, faulty, resolver, api, was, img, unit, front>>

\* json.dump(data, f, ...) and the end of the with block: the file is
\* complete; set returns True
SetDumps ==
    /\ writer # None
    /\ LET w == writer.value
           s == CacheSet(store, w.query, w.type, w.payload, now, NoFaults) IN
       /\ store' = s.dir
       /\ api' = ApiCall("set", w.query, w.type, w.payload, s.value, FALSE)
    /\ was' = api
    /\ writer' = None
    /\ UNCHANGED <<now, faulty, resolver, img, unit, front>>

\* the two processes work on the entries of one search type
SharedTypes == {"email"}

NextShared ==
    \/ Tick
    \/ \E query \in ApiQueries : \E search_type \in SharedTypes : \E data \in Payloads :
          SetOpens(query, search_type, data)
    \/ SetDumps
    \/ \E query \in ApiQueries : \E search_type \in SharedTypes :
          ApiGet(query, search_type, NoFaults)

SpecShared == Init /\ [][NextShared]_vars


(***************************************************************************)
(* Image extraction (formatter.py).  A URL is a string whose first token   *)
(* is its scheme; the list returned is held as the set of its members.     *)
(***************************************************************************)
\* the keys extract_images_from_result looks for
ImageKeys == {"profile_image", "avatar", "picture", "photo", "image"}

\* img_url.startswith('http://') or img_url.startswith('https://')
StartsWithHttp(img_url) == Len(img_url) > 0 /\ img_url[1] \in {"http://", "https://"}

\* the inner loop of extract_images_from_result over the data of one entry
ImagesOfEntry(entry) ==
    LET data == IF "data" \in DOMAIN entry THEN entry.data ELSE EmptyDict
    IN  {data[key] : key \in {k \in ImageKeys \cap DOMAIN data :
                                  data[k] # <<>> /\ StartsWithHttp(data[k])}}

\* the outer loop of extract_images_from_result over a list of entries
ImagesOfEntries(entries) == UNION {ImagesOfEntry(entries[i]) : i \in 1..Len(entries)}

\* extract_images_from_result
ExtractImagesFromResult(result) ==
    LET result_type == IF "type" \in DOMAIN result THEN result.type ELSE ""
    IN  CASE result_type = "username" ->
                ImagesOfEntries(IF "analyses" \in DOMAIN result THEN result.analyses ELSE <<>>)
          [] result_type \in {"phone", "email"} ->
                ImagesOfEntries(IF "results" \in DOMAIN result THEN result.results ELSE <<>>)
          [] OTHER -> {}

\* the values of the fields of the entries
FieldValues ==
    {<<"https://", "x", "/", "y", ".png">>, <<"http://", "x">>, <<"ftp://", "bad">>, <<>>}

\* the data of an entry: no field, one image field, a field under another
\* key, two image fields with different values, two with the same value
EntryData ==
    {EmptyDict, [title |-> <<"https://", "x", "/", "y", ".png">>],
     [image |-> <<"https://", "x", "/", "y", ".png">>, avatar |-> <<"ftp://", "bad">>],
     [photo |-> <<"http://", "x">>, picture |-> <<"http://", "x">>]}
      \cup {(key :> v) : key \in ImageKeys, v \in FieldValues}

\* the lists of at most MaxImageEntries entries
EntryLists ==
    UNION {[1..n -> {[platform |-> "Site", data |-> d] : d \in EntryData}] :
              n \in 0..MaxImageEntries}

\* the results of the four searches, with the type and the list key the
\* search gives its result
ImageResults ==
    {[type |-> "username", analyses |-> l] : l \in EntryLists}
      \cup {[type |-> t, results |-> l] : t \in {"phone", "email"}, l \in EntryLists}
      \cup {[type |-> "domain_analysis", analyses |-> l] : l \in EntryLists}

\* images = extract_images_from_result(result)
ExtractImages(result) ==
    /\ img' = [result |-> result, images |-> ExtractImagesFromResult(result)]
    /\ UNCHANGED <<store, now, faulty, resolver, api, was, writer, unit, front>>

NextImages == \E result \in ImageResults : ExtractImages(result)

SpecImages == Init /\ [][NextImages]_vars


(***************************************************************************)
(* The lottery of the group chat (bot.py): /random_1 opens a lobby, the    *)
(* button of the lobby message records a participant, /stop_in closes the  *)
(* lobby and deals the numbers.  A handler is a coroutine: between two of  *)
(* its awaits it runs alone, at an await other handlers run.  A user       *)
(* stands for the name the dictionary keeps for them.                      *)
(***************************************************************************)
\* the numbers 1..PoolSize are dealt without repetition; a participant
\* beyond the first PoolSize gets a number from 1..ConsolationMax
PoolSize == 50
ConsolationMax == 10

\* participants_lobby.get(chat_id, {}), and participants_lobby[chat_id] of
\* the defaultdict
Entries(chat_id) ==
    IF chat_id \in DOMAIN participants_lobby THEN participants_lobby[chat_id] ELSE <<>>

\* d[user.id] = name: a key the dictionary has keeps its place
Joined(users, user) ==
    IF \E i \in 1..Len(users) : users[i] = user THEN users ELSE Append(users, user)

\* d.pop(chat_id, None)
Pop(d, chat_id) == [c \in DOMAIN d \ {chat_id} |-> d[c]]

\* random.shuffle(s): the orders of s the model lets it leave, which are
\* all of them for a list of two
Shuffled(s) ==
    LET reversed == [i \in 1..Len(s) |-> s[Len(s) + 1 - i]]
        rotated == [i \in 1..Len(s) |-> s[(i % Len(s)) + 1]]
    IN  {s, reversed, rotated}

\* a variant of Distribute that deals numbers[1] to everyone in reach of
\* the shuffled numbers
DistributeFirstNumber(participants, numbers, rest) ==
    [i \in 1..Len(participants) |->
        [user |-> participants[i],
         number |-> IF i <= PoolSize THEN numbers[1] ELSE rest[i - PoolSize]]]

\* the distribution list cmd_stop_lottery builds from the shuffled
\* participants, the shuffled numbers and the random.randint(1, 10) drawn
\* for those beyond the first PoolSize
Distribute(participants, numbers, rest) ==
    [i \in 1..Len(participants) |->
        [user |-> participants[i],
         number |-> IF i <= PoolSize THEN numbers[i] ELSE rest[i - PoolSize]]]

\* cmd_stop_lottery from the reading of the participants to its last
\* reply: what call h may hold when it sends the reply
Collected(h) ==
    LET participants == Entries(Chat)
        beyond == IF Len(participants) > PoolSize THEN Len(participants) - PoolSize ELSE 0
    IN  {[stop[h] EXCEPT !.pc = "replying",
                         !.participants = participants,
                         !.distribution = Distribute(order, numbers, rest)] :
            order \in Shuffled(participants),
            numbers \in Shuffled([i \in 1..PoolSize |-> i]),
            rest \in [1..beyond -> 1..ConsolationMax]}

\* cmd_random_lottery in a group chat, up to the sending of the lobby
\* message
RandomLottery ==
    /\ ~lot.posting
    /\ IF Chat \in lobby_open
       THEN UNCHANGED <<lobby_open, participants_lobby, lot>>
       ELSE /\ lot.lobbies < MaxLobbies
            /\ lobby_open' = lobby_open \cup {Chat}
            /\ participants_lobby' = (Chat :> <<>>) @@ participants_lobby
            /\ lot' = [lot EXCEPT !.lobbies = @ + 1, !.posting = TRUE]
    /\ UNCHANGED <<back, lobby_message_id, stop, state, turn>>

\* the lobby message has been sent, or its sending raised: the message of
\* lobby n is given the id n
LobbyPosted(sent) ==
    /\ lot.posting
    /\ lot' = [lot EXCEPT !.posting = FALSE]
    /\ lobby_message_id' = IF sent THEN (Chat :> lot.lobbies) @@ lobby_message_id
                           ELSE lobby_message_id
    /\ UNCHANGED <<back, lobby_open, participants_lobby, stop, state, turn>>

\* callback_lottery_join: a user presses the button of a lobby message of
\* the chat.  Such a button can be pressed whenever a message carrying it
\* is in the chat: a lobby message survives a restart of the bot, and the
\* removal of its keyboard by cmd_stop_lottery may fail.  answered says
\* whether callback_query.answer got through.
LotteryJoin(user, answered) ==
    /\ participants_lobby' = (Chat :> Joined(Entries(Chat), user)) @@ participants_lobby
    /\ lot' = [lot EXCEPT !.joined = [user |-> user, open |-> Chat \in lobby_open,
                                      recorded |-> TRUE, confirmed |-> answered]]
    /\ UNCHANGED <<back, lobby_open, lobby_message_id, stop, state, turn>>

\* the statuses bot.get_chat_member may report of the sender of /stop_in;
\* "raise": the request raises
MemberStatuses == {"creator", "administrator", "member", "raise"}

\* cmd_stop_lottery up to bot.get_chat_member
StopLottery(h) ==
    /\ stop[h].pc = "idle"
    /\ stop' = [stop EXCEPT ![h] =
                  IF Chat \notin lobby_open
                  THEN [NoStop EXCEPT !.said = "not_open", !.lobby = lot.lobbies]
                  ELSE [NoStop EXCEPT !.pc = "checking", !.lobby = lot.lobbies]]
    /\ UNCHANGED <<back, lobby_open, participants_lobby, lobby_message_id, lot, state, turn>>

\* a variant of MemberReturns that lets every sender whose status could
\* be read close the lobby
MemberReturnsAnyone(h, status) ==
    /\ stop[h].pc = "checking"
    /\ IF status = "raise"
       THEN /\ stop' = [stop EXCEPT ![h].pc = "idle", ![h].said = "check_failed",
                                    ![h].admin = "failed"]
            /\ UNCHANGED lobby_open
       ELSE /\ lobby_open' = lobby_open \ {Chat}
            /\ LET admin == IF status \in {"administrator", "creator"} THEN "yes" ELSE "no"
               IN  IF Chat \in DOMAIN lobby_message_id
                   THEN stop' = [stop EXCEPT ![h].pc = "editing", ![h].admin = admin]
                   ELSE \E s \in Collected(h) :
                           stop' = [stop EXCEPT ![h] = [s EXCEPT !.admin = admin]]
    /\ UNCHANGED <<back, participants_lobby, lobby_message_id, lot, state, turn>>

\* bot.get_chat_member has answered: cmd_stop_lottery up to the removal of
\* the keyboard or, without a lobby message, up to its last reply
MemberReturns(h, status) ==
    /\ stop[h].pc = "checking"
    /\ IF status = "raise"
       THEN /\ stop' = [stop EXCEPT ![h].pc = "idle", ![h].said = "check_failed",
                                    ![h].admin = "failed"]
            /\ UNCHANGED lobby_open
       ELSE IF status \notin {"administrator", "creator"}
       THEN /\ stop' = [stop EXCEPT ![h].pc = "idle", ![h].said = "not_admin",
                                    ![h].admin = "no"]
            /\ UNCHANGED lobby_open
       ELSE /\ lobby_open' = lobby_open \ {Chat}
            /\ IF Chat \in DOMAIN lobby_message_id
               THEN stop' = [stop EXCEPT ![h].pc = "editing", ![h].admin = "yes"]
               ELSE \E s \in Collected(h) :
                       stop' = [stop EXCEPT ![h] = [s EXCEPT !.admin = "yes"]]
    /\ UNCHANGED <<back, participants_lobby, lobby_message_id, lot, state, turn>>

\* bot.edit_message_reply_markup has returned or raised: cmd_stop_lottery
\* up to its last reply
MarkupReturns(h) ==
    /\ stop[h].pc = "editing"
    /\ \E s \in Collected(h) : stop' = [stop EXCEPT ![h] = s]
    /\ UNCHANGED <<back, lobby_open, participants_lobby, lobby_message_id, lot, state, turn>>

\* the last reply of cmd_stop_lottery has been sent, or its sending
\* raised and the exception leaves the handler: the rest of the handler
ReplyReturns(h, sent) ==
    /\ stop[h].pc = "replying"
    /\ IF sent
       THEN /\ stop' = [stop EXCEPT ![h] =
                          [NoStop EXCEPT !.lobby = stop[h].lobby, !.admin = stop[h].admin,
                                         !.said = IF stop[h].participants = <<>>
                                                  THEN "nobody" ELSE "results"]]
            /\ lot' = IF stop[h].participants = <<>>
                      THEN lot
                      ELSE [lot EXCEPT !.posted = Append(@, stop[h].lobby),
                                       !.results =
                                           [participants |-> stop[h].participants,
                                            distribution |-> stop[h].distribution]]
            /\ participants_lobby' = Pop(participants_lobby, Chat)
            /\ lobby_message_id' = Pop(lobby_message_id, Chat)
       ELSE /\ stop' = [stop EXCEPT ![h] = [NoStop EXCEPT !.lobby = stop[h].lobby,
                                                           !.admin = stop[h].admin,
                                                           !.said = "raised"]]
            /\ UNCHANGED <<lot, participants_lobby, lobby_message_id>>
    /\ UNCHANGED <<back, lobby_open, state, turn>>

\* two /stop_in side by side, few participants
NextStops ==
    \/ RandomLottery
    \/ \E sent \in BOOLEAN : LobbyPosted(sent)
    \/ \E user \in 1..MaxJoiners : \E answered \in BOOLEAN : LotteryJoin(user, answered)
    \/ \E h \in Stoppers : StopLottery(h)
    \/ \E h \in Stoppers : \E status \in MemberStatuses : MemberReturns(h, status)
    \/ \E h \in Stoppers : MarkupReturns(h)
    \/ \E h \in Stoppers : \E sent \in BOOLEAN : ReplyReturns(h, sent)

SpecStops == Init /\ [][NextStops]_vars


\* one /stop_in at a time, many participants: the button is pressed while
\* the lobby is open, by a user who is already in or by the next new one
NextCrowd ==
    \/ RandomLottery
    \/ \E sent \in BOOLEAN : LobbyPosted(sent)
    \/ \E user \in {1, Len(Entries(Chat)) + 1} \cap 1..MaxCrowd :
          Chat \in lobby_open /\ LotteryJoin(user, TRUE)
    \/ StopLottery(1)
    \/ \E status \in MemberStatuses : MemberReturns(1, status)
    \/ MarkupReturns(1)
    \/ \E sent \in BOOLEAN : ReplyReturns(1, sent)

SpecCrowd == Init /\ [][NextCrowd]_vars


(***************************************************************************)
(* The search dialogs (bot.py).  The dispatcher gives a message to the     *)
(* first registered handler whose filters it passes: a handler registered  *)
(* with commands passes a message whose first word is "/" and one of the   *)
(* commands, letter case ignored; a handler registered without a state     *)
(* passes a message only while the user has no state, a handler registered *)
(* with state "*" in every state.  Every handler named here takes text     *)
(* messages.                                                               *)
(***************************************************************************)
\* the words of the handlers; 'отмена' and '❌ отмена' are written in the
\* letters the model has
cancel == <<"c", "a", "n", "c", "e", "l">>
otmena == <<"o", "t", "m", "e", "n", "a">>
osint == <<"o", "s", "i", "n", "t", "_">>
CommandNames ==
    [start |-> <<"s", "t", "a", "r", "t">>,
     help |-> <<"h", "e", "l", "p">>,
     osint_username |-> osint \o <<"u", "s", "e", "r", "n", "a", "m", "e">>,
     cancel |-> cancel,
     osint_phone |-> osint \o <<"p", "h", "o", "n", "e">>,
     osint_email |-> osint \o <<"e", "m", "a", "i", "l">>,
     osint_domain |-> osint \o <<"d", "o", "m", "a", "i", "n">>,
     random_1 |-> <<"r", "a", "n", "d", "o", "m", "_", "1">>,
     stop_in |-> <<"s", "t", "o", "p", "_", "i", "n">>]

\* ['отмена', '❌ отмена', 'cancel']
CancelWords == {otmena, <<"x", " ">> \o otmena, cancel}

\* the handlers in the order of their registration
Registered ==
    <<[name |-> "send_welcome", commands |-> {CommandNames.start}, state |-> "none"],
      [name |-> "help_command", commands |-> {CommandNames.help}, state |-> "none"],
      [name |-> "cmd_osint_username", commands |-> {CommandNames.osint_username},
       state |-> "none"],
      [name |-> "process_username", commands |-> {}, state |-> "waiting_for_username"],
      [name |-> "cmd_cancel", commands |-> {CommandNames.cancel}, state |-> "*"],
      [name |-> "cmd_osint_phone", commands |-> {CommandNames.osint_phone},
       state |-> "none"],
      [name |-> "process_phone", commands |-> {}, state |-> "waiting_for_phone"],
      [name |-> "cmd_osint_email", commands |-> {CommandNames.osint_email},
       state |-> "none"],
      [name |-> "process_email", commands |-> {}, state |-> "waiting_for_email"],
      [name |-> "cmd_osint_domain", commands |-> {CommandNames.osint_domain},
       state |-> "none"],
      [name |-> "process_domain", commands |-> {}, state |-> "waiting_for_domain"],
      [name |-> "cmd_random_lottery", commands |-> {CommandNames.random_1},
       state |-> "none"],
      [name |-> "cmd_stop_lottery", commands |-> {CommandNames.stop_in}, state |-> "none"],
      [name |-> "track_group_members", commands |-> {}, state |-> "none"]>>

\* the command a message carries: its first word without the "/", in
\* lower case; the empty string if the message does not begin with "/"
CommandOf(text) ==
    IF text = <<>> \/ text[1] # "/"
    THEN <<>>
    ELSE LET rest == Tail(text)
             word == IF \E i \in 1..Len(rest) : rest[i] \in Whitespace
                     THEN SubSeq(rest, 1, (CHOOSE i \in 1..Len(rest) :
                                              /\ rest[i] \in Whitespace
                                              /\ \A j \in 1..(i - 1) :
                                                    rest[j] \notin Whitespace) - 1)
                     ELSE rest
         IN  Lower(word)

\* the handler the dispatcher gives a message to while the user is in
\* state st; "none" if no handler takes it
Handler(text, st) ==
    LET passes(i) ==
            /\ Registered[i].commands # {} => CommandOf(text) \in Registered[i].commands
            /\ Registered[i].state \in {"*", st}
    IN  IF \E i \in 1..Len(Registered) : passes(i)
        THEN Registered[CHOOSE i \in 1..Len(Registered) :
                           passes(i) /\ \A j \in 1..(i - 1) : ~passes(j)].name
        ELSE "none"

\* the query types of the dialogs, with the handler that asks for the
\* identifier, the state it sets and the handler that takes the identifier
Dialogs ==
    [username |-> [cmd |-> "cmd_osint_username", state |-> "waiting_for_username",
                   process |-> "process_username"],
     phone |-> [cmd |-> "cmd_osint_phone", state |-> "waiting_for_phone",
                process |-> "process_phone"],
     email |-> [cmd |-> "cmd_osint_email", state |-> "waiting_for_email",
                process |-> "process_email"],
     domain |-> [cmd |-> "cmd_osint_domain", state |-> "waiting_for_domain",
                 process |-> "process_domain"]]

\* the messages the user sends
Texts ==
    {cancel, <<"C", "a", "n", "c", "e", "l">>, <<" ">> \o cancel, <<"a">>,
     <<" ", "a", " ">>, <<" ">>, <<"/">> \o cancel, <<"/", "C">> \o Tail(cancel)}
        \cup {<<"/">> \o CommandNames[c] :
                 c \in {"osint_username", "osint_phone", "osint_email", "osint_domain"}}

\* the calls of a process_* handler that may raise: the reply that the
\* search has begun, the chat action, the search function, the reply with
\* the result
Failures == SUBSET {"progress", "action", "search", "reply"}

\* what the bot did with a message
Turn(handler, text, searches, raised) ==
    [handler |-> handler, text |-> text, before |-> state, searches |-> searches,
     raised |-> raised]

\* cmd_osint_username, cmd_osint_phone, cmd_osint_email, cmd_osint_domain
CmdOsint(type, text) ==
    /\ Handler(text, state) = Dialogs[type].cmd
    /\ state' = Dialogs[type].state
    /\ turn' = Turn(Dialogs[type].cmd, text, <<>>, FALSE)
    /\ UNCHANGED <<back, lobby_open, participants_lobby, lobby_message_id, stop, lot>>

\* process_username, process_phone, process_email, process_domain: the
\* calls in failing raise
Process(type, text, failing) ==
    /\ Handler(text, state) = Dialogs[type].process
    /\ IF Lower(text) \in CancelWords
       THEN /\ state' = "none"
            /\ turn' = Turn(Dialogs[type].process, text, <<>>, FALSE)
       ELSE IF Strip(text) = <<>>
       THEN /\ state' = state
            /\ turn' = Turn(Dialogs[type].process, text, <<>>, FALSE)
       ELSE IF "progress" \in failing
       THEN /\ state' = state
            /\ turn' = Turn(Dialogs[type].process, text, <<>>, TRUE)
       ELSE /\ state' = "none"
            /\ turn' = Turn(Dialogs[type].process, text,
                            IF "action" \in failing
                            THEN <<>>
                            ELSE <<[type |-> type, query |-> Strip(text)]>>,
                            FALSE)
    /\ UNCHANGED <<back, lobby_open, participants_lobby, lobby_message_id, stop, lot>>

\* cmd_cancel
CmdCancel(text) ==
    /\ Handler(text, state) = "cmd_cancel"
    /\ state' = "none"
    /\ turn' = Turn("cmd_cancel", text, <<>>, FALSE)
    /\ UNCHANGED <<back, lobby_open, participants_lobby, lobby_message_id, stop, lot>>

\* a message that goes to another handler, or to none: the state stays
Elsewhere(text) ==
    /\ Handler(text, state) \notin
          {"cmd_cancel"} \cup {Dialogs[t].cmd : t \in DOMAIN Dialogs}
                         \cup {Dialogs[t].process : t \in DOMAIN Dialogs}
    /\ turn' = Turn(Handler(text, state), text, <<>>, FALSE)
    /\ UNCHANGED <<back, lobby_open, participants_lobby, lobby_message_id, stop, lot, state>>

NextDialog ==
    \/ \E type \in DOMAIN Dialogs : \E text \in Texts : CmdOsint(type, text)
    \/ \E type \in DOMAIN Dialogs : \E text \in Texts : \E failing \in Failures :
          Process(type, text, failing)
    \/ \E text \in Texts : CmdCancel(text)
    \/ \E text \in Texts : Elsewhere(text)

SpecDialog == Init /\ [][NextDialog]_vars


(***************************************************************************)
(* The claims.                                                             *)
(***************************************************************************)
\* the identifier is accepted by the validation of its query type
ValidIdentifier(type, raw) ==
    CASE type = "username" -> CleanUsername(raw) # <<>>
      [] type = "email" -> EmailMatches(raw)
      [] type = "phone" -> \E i \in 1..Len(raw) : raw[i] \in Digits
      [] type = "domain" -> IsValidIp(Strip(raw)) \/ IsValidDomain(Strip(raw))
      [] OTHER -> FALSE

\* cur is the call that follows prev, with the same identifier, less than
\* the expiry time after prev missed the cache and stored its result
SecondCallWithinTtl ==
    /\ prev.status = "returned"
    /\ ValidIdentifier(prev.type, prev.raw)
    /\ cur.type = prev.type
    /\ cur.raw = prev.raw
    /\ prev.mtime = prev.tcall
    /\ cur.tcall - prev.tcall < CACHE_EXPIRY_HOURS

\* C1: of two consecutive resolve calls with the same valid identifier, the
\* second made within the TTL window of the first, the first returns
\* from_cache = false, the second returns the same result with from_cache =
\* true and nothing else changed, and the second call makes no request.
C1_IdempotentWithinTtl ==
    SecondCallWithinTtl =>
        /\ cur.status = "returned"
        /\ ~prev.ret.from_cache
        /\ cur.ret.from_cache
        /\ cur.ret = [prev.ret EXCEPT !.from_cache = TRUE]
        /\ cur.probes = 0
        /\ cur.writes = 0

\* a username found on two platforms is served from the cache twelve hours
\* after the call that found it
C1_Witness ==
    /\ SecondCallWithinTtl
    /\ cur.type = "username"
    /\ cur.status = "returned"
    /\ cur.ret.from_cache
    /\ cur.ret.total_found = 2
    /\ cur.tcall = prev.tcall + TickHours

\* every request of the query type of cur has been made and answered
AllProbesRan ==
    CASE cur.type = "username" ->
           /\ cur.probes = 6
           /\ Len(responses) = 6
           /\ \A i \in 1..6 : ~responses[i].pending
      [] cur.type = "email" -> cur.probes = 7 /\ Len(cur.ret.results) = 7
      [] cur.type = "phone" -> Len(cur.ret.results) = 2
      [] cur.type = "domain" -> cur.probes >= 1 /\ Len(cur.ret.analyses) >= 2
      [] OTHER -> FALSE

CurKey == GetCacheKey(cur.query, cur.type)

Succeeded ==
    {i \in 1..Len(responses) : ~responses[i].pending /\ ~responses[i].result.none}

\* C3: a username result that is not served from the cache has one entry
\* for each registered scraper, total_checked is the number of scrapers and
\* total_found the number of scrapers that succeeded.
C3_EveryProbeHasAnEntry ==
    (/\ cur.type = "username"
     /\ cur.status = "returned"
     /\ "error" \notin DOMAIN cur.ret
     /\ ~cur.ret.from_cache) =>
        /\ Len(cur.ret.analyses) = 6
        /\ cur.ret.total_checked = 6
        /\ cur.ret.total_found = Cardinality(Succeeded)

\* the fixed platform list of an e-mail query
EmailPlatformNames ==
    <<"Gmail", "GitHub", "LinkedIn", "Facebook", "Twitter", "Instagram", "Reddit">>

\* C4: on a cache miss of search_email the entries appear one per platform
\* in list order, a request that raised gives an entry with status 'error'
\* for its platform, and the loop goes on to the end: the result has the
\* seven entries and total_checked 7.
C4_EmailFailureIsolation ==
    /\ (cur.type = "email" /\ cur.status = "running") =>
          /\ Len(acc) <= 7
          /\ cur.probes = Len(acc)
          /\ \A i \in 1..Len(acc) :
                /\ acc[i].platform = EmailPlatformNames[i]
                /\ (i \in cur.raisedAt) <=> (acc[i].status = <<"error">>)
    /\ (cur.type = "email" /\ cur.status = "returned"
            /\ "error" \notin DOMAIN cur.ret /\ ~cur.ret.from_cache) =>
          /\ Len(cur.ret.results) = 7
          /\ cur.ret.total_checked = 7
          /\ cur.probes = 7
          /\ \A i \in 1..7 :
                /\ cur.ret.results[i].platform = EmailPlatformNames[i]
                /\ (i \in cur.raisedAt) <=> (cur.ret.results[i].status = <<"error">>)

\* the request to the second platform raised and the platforms after it
\* were probed and answered
C4_Witness ==
    /\ cur.type = "email"
    /\ cur.status = "returned"
    /\ ~cur.ret.from_cache
    /\ cur.raisedAt = {2}
    /\ cur.ret.results[2].status = <<"error">>
    /\ cur.ret.results[3].status = <<"accessible">>
    /\ cur.ret.results[7].status = <<"accessible">>

\* the registration order of the profile scrapers
RegistrationOrder == <<"GitHub", "Twitter", "Instagram", "LinkedIn", "VK", "Telegram">>

Rank(name) == CHOOSE i \in 1..6 : RegistrationOrder[i] = name

\* C5: the entries of analyses of a username result are in registration
\* order, whatever the order in which the scrapers finished.
C5_RegistrationOrder ==
    (cur.type = "username" /\ cur.status = "returned") =>
        \A i \in 1..Len(cur.ret.analyses) : \A j \in 1..Len(cur.ret.analyses) :
            i < j => Rank(cur.ret.analyses[i].platform) < Rank(cur.ret.analyses[j].platform)

\* two scrapers found a profile, the one registered later finished first
C5_Witness ==
    /\ cur.type = "username"
    /\ cur.status = "returned"
    /\ ~cur.ret.from_cache
    /\ cur.swapped
    /\ Len(cur.ret.analyses) = 2

\* C6: for a query that is neither an IPv4 address nor a domain name,
\* analyze_domain_complete returns an error result, does not read the
\* cache, runs no accessibility or DNS probe and writes nothing.
C6_DomainRejection ==
    (/\ cur.type = "domain"
     /\ ~IsValidIp(cur.query)
     /\ ~IsValidDomain(cur.query)) =>
        /\ cur.status = "returned"
        /\ ("error" \in DOMAIN cur.ret \/ ~cur.ret.success)
        /\ cur.reads = 0
        /\ cur.probes = 0
        /\ cur.writes = 0

\* C7: a search_email call with a string that does not match the pattern
\* returns the 'Invalid email format' result with no results and from_cache
\* false, makes no request, does not call the cache and leaves the cache
\* directory as it was.
C7_EmailRejection ==
    [][(cur' # cur /\ cur'.type = "email" /\ ~EmailMatches(cur'.raw)) =>
          /\ cur'.status = "returned"
          /\ cur'.ret = [query |-> cur'.raw, error |-> "Invalid email format",
                         results |-> <<>>, from_cache |-> FALSE]
          /\ cur'.probes = 0
          /\ cur'.reads = 0
          /\ cur'.writes = 0
          /\ store' = store]_vars

\* a malformed address has been rejected while the cache held a file
C7_Witness ==
    /\ cur.type = "email"
    /\ ~EmailMatches(cur.raw)
    /\ cur.status = "returned"
    /\ "error" \in DOMAIN cur.ret
    /\ DOMAIN store # {}

\* C8: a search_phone call with a string without a digit returns the
\* 'Invalid phone number format' result with no results, builds no platform
\* entry, does not call the cache and leaves the cache directory as it was.
C8_PhoneRejection ==
    [][(cur' # cur /\ cur'.type = "phone" /\ \A i \in 1..Len(cur'.raw) : cur'.raw[i] \notin Digits) =>
          /\ cur'.status = "returned"
          /\ "error" \in DOMAIN cur'.ret
          /\ cur'.ret.error = "Invalid phone number format"
          /\ cur'.ret.results = <<>>
          /\ acc' = <<>>
          /\ cur'.probes = 0
          /\ cur'.reads = 0
          /\ cur'.writes = 0
          /\ store' = store]_vars

\* a number without digits has been rejected while the cache held a file
C8_Witness ==
    /\ cur.type = "phone"
    /\ cur.raw = <<"+">>
    /\ cur.status = "returned"
    /\ "error" \in DOMAIN cur.ret
    /\ DOMAIN store # {}

\* C9: no resolve call lets an exception escape, whatever fails in the
\* network, the resolver or the file system of the cache.
C9_NeverRaises == cur.status # "raised"

\* C10: in every username, e-mail and phone result without an error,
\* fresh or served from the cache, total_checked is the length of the
\* result list, and total_found of a username result is the number of
\* entries whose found flag is true.
C10_Counts ==
    (cur.status = "returned" /\ "error" \notin DOMAIN cur.ret) =>
        /\ cur.type = "username" =>
              /\ cur.ret.total_checked = Len(cur.ret.analyses)
              /\ cur.ret.total_found =
                    Cardinality({i \in 1..Len(cur.ret.analyses) : cur.ret.analyses[i].found})
        /\ cur.type \in {"email", "phone"} =>
              cur.ret.total_checked = Len(cur.ret.results)

\* a username result with one profile found and five scrapers without one
\* is served from the cache
C10_Witness ==
    /\ cur.status = "returned"
    /\ cur.type = "username"
    /\ cur.ret.from_cache
    /\ cur.ret.total_checked = 1
    /\ cur.ret.total_found = 1

\* C11: in every username result without an error, fresh or served from
\* the cache, success is true exactly when total_found is positive, and
\* total_found is positive exactly when some entry has found = true.
C11_SuccessIffFound ==
    (cur.type = "username" /\ cur.status = "returned" /\ "error" \notin DOMAIN cur.ret) =>
        /\ cur.ret.success <=> (cur.ret.total_found > 0)
        /\ (cur.ret.total_found > 0) <=>
              (\E i \in 1..Len(cur.ret.analyses) : cur.ret.analyses[i].found)

\* the six scrapers have answered and none has found a profile
C11_Witness ==
    /\ cur.type = "username"
    /\ cur.status = "returned"
    /\ ~cur.ret.from_cache
    /\ cur.probes = 6
    /\ cur.ret.analyses = <<>>
    /\ ~cur.ret.success
    /\ cur.ret.total_found = 0

\* the result the call in progress has built from its probes
BuiltResult ==
    CASE cur.type = "username" -> UsernameResult(cur.query, CollectResponses(responses))
      [] cur.type = "email" -> EmailResult(cur.raw, acc)
      [] cur.type = "phone" -> PhoneResult(cur.raw, cur.query, acc)
      [] cur.type = "domain" -> DomainResult(cur.query, acc)
      [] OTHER -> NoResult

\* C12: a call whose cache.set failed (open() or json.dump raised) does not
\* raise and returns the result it has built from its probes, the one it
\* returns when the write succeeds.
C12_PersistFailureInvisible ==
    (cur.writes = 1 /\ cur.mtime = -1) =>
        /\ cur.status = "returned"
        /\ cur.ret = BuiltResult
        /\ ~cur.ret.from_cache

\* a username call found a profile, its cache.set failed and it returned
C12_Witness ==
    /\ faulty
    /\ cur.type = "username"
    /\ cur.status = "returned"
    /\ cur.writes = 1
    /\ cur.mtime = -1
    /\ cur.ret.total_found = 1
    /\ (CurKey \notin DOMAIN store \/ ~store[CurKey].content.valid)

\* C13: cache.get does not raise: a call that has asked the cache and has
\* got no further has not been left by an exception, whichever of exists(),
\* stat(), unlink() and the read of the file failed.
C13_ReadFailuresAreMisses ==
    (cur.reads = 1 /\ cur.writes = 0 /\ cur.probes = 0) => cur.status \in {"running", "returned"}

\* C15: a call that finds a readable file of its key whose age does not
\* exceed the TTL, the age equal to the TTL included, is served from that
\* file, which stays in the directory.
C15_TtlBoundary ==
    (cur.reads = 1 /\ cur.age >= 0 /\ cur.age <= CACHE_EXPIRY_HOURS) =>
        /\ cur.status = "returned"
        /\ cur.ret.from_cache
        /\ CurKey \in DOMAIN store
        /\ store[CurKey].mtime = cur.tcall - cur.age

\* the lower-cased string 'type:query' of a direct call
KeyString(call) == Lower(<<call.type, ":">> \o call.query)

\* api is a get made less than the expiry time after the set was, which
\* returned true
GetAfterSet ==
    /\ was.op = "set"
    /\ was.ret
    /\ api.op = "get"
    /\ api.at - was.at < CACHE_EXPIRY_HOURS

\* C16: a get that follows, within the TTL, a successful set whose
\* lower-cased 'type:query' string equals its own returns the payload of
\* that set; a set changes no entry but the one of its own string, and a
\* get returns nothing but the payload stored under its own string and
\* removes no other entry.
C16_CaseInsensitiveKey ==
    /\ []((GetAfterSet /\ KeyString(was) = KeyString(api)) =>
             (~api.raised /\ api.ret = Some(was.payload)))
    /\ [][(api' # api /\ api'.op \in {"get", "set"}) =>
             /\ \A k \in DOMAIN store \ {KeyString(api')} :
                   k \in DOMAIN store' /\ store'[k] = store[k]
             /\ DOMAIN store' \subseteq DOMAIN store \cup {KeyString(api')}
             /\ api'.op = "get" =>
                   \/ api'.ret = None
                   \/ /\ KeyString(api') \in DOMAIN store
                      /\ api'.ret = Some(store[KeyString(api')].content.data)]_vars

\* the payload set for 'a' under one type is returned for 'A' under that
\* type while the directory holds another payload for 'a' under the other
\* type
C16_Witness ==
    /\ GetAfterSet
    /\ was.query = <<"a">>
    /\ api.query = <<"A">>
    /\ was.type = "email"
    /\ api.type = "email"
    /\ api.ret = Some(was.payload)
    /\ <<"domain", ":", "a">> \in DOMAIN store
    /\ store[<<"domain", ":", "a">>].content.data # was.payload

StoredUnder(k) == k[1]

\* C18: clear(t) deletes the files stored under type t and no other file,
\* and returns the number of files that were stored under type t.
C18_TypedClearExact ==
    [][(api' # api /\ api'.op = "clear" /\ api'.type # "none") =>
          /\ DOMAIN store' = {k \in DOMAIN store : StoredUnder(k) # api'.type}
          /\ \A k \in DOMAIN store' : store'[k] = store[k]
          /\ api'.ret = Cardinality({k \in DOMAIN store : StoredUnder(k) = api'.type})]_vars

\* C19: clear() deletes every file and returns the number of files the
\* directory held; a get that follows it returns nothing.
C19_UntypedClearEmpties ==
    /\ [][(api' # api /\ api'.op = "clear" /\ api'.type = "none") =>
             /\ DOMAIN store' = {}
             /\ api'.ret = Cardinality(DOMAIN store)]_vars
    /\ []((was.op = "clear" /\ was.type = "none" /\ api.op = "get") =>
             (~api.raised /\ api.ret = None))

\* clear() has deleted two files and the get after it has found nothing
C19_Witness ==
    /\ was.op = "clear"
    /\ was.type = "none"
    /\ was.ret = 2
    /\ api.op = "get"
    /\ api.ret = None
    /\ store = <<>>

\* the set in progress writes the key of the call
WritesKeyOf(call) ==
    /\ writer # None
    /\ GetCacheKey(writer.value.query, writer.value.type) = GetCacheKey(call.query, call.type)

\* the entry the set in progress found was complete and younger than the
\* expiry time
FreshBefore ==
    /\ ~writer.value.before.none
    /\ writer.value.before.value.content.valid
    /\ now - writer.value.before.value.mtime < CACHE_EXPIRY_HOURS

\* C14: a get made between the two steps of a set of its key returns the
\* payload stored before the set or the payload being set, and returns
\* nothing only if no fresh entry existed before the set.
C14_NoTornReads ==
    [][(api' # api /\ api'.op = "get" /\ WritesKeyOf(api')) =>
          /\ ~api'.raised
          /\ \/ api'.ret = Some(writer.value.payload)
             \/ /\ ~writer.value.before.none
                /\ writer.value.before.value.content.valid
                /\ api'.ret = Some(writer.value.before.value.content.data)
             \/ api'.ret = None /\ ~FreshBefore]_vars

\* the entries of a result, under either list key
EntriesOf(result) ==
    IF "analyses" \in DOMAIN result THEN result.analyses
    ELSE IF "results" \in DOMAIN result THEN result.results
    ELSE <<>>

\* the values of the image fields of the entries of a result that are
\* strings starting with 'http://' or 'https://'
ImageUrlsIn(result) ==
    {v \in FieldValues :
        /\ Len(v) > 0
        /\ v[1] \in {"http://", "https://"}
        /\ \E i \in 1..Len(EntriesOf(result)) : \E key \in ImageKeys :
              /\ key \in DOMAIN EntriesOf(result)[i].data
              /\ EntriesOf(result)[i].data[key] = v}

C21_IpSuccessIffHostname ==
    (cur.type = "domain" /\ cur.status = "returned" /\ IsValidIp(cur.query)) =>
        (cur.ret.success <=> cur.ret.analyses[1].data.hostname # Unresolved)

\* C28: check_domain_accessibility is called exactly for the queries that
\* are domain names: for a valid IPv4 address the analyses are the basic
\* info and the DNS info, for a domain name the basic info, the
\* accessibility and the DNS info, in that order.
C28_AccessibilityOnlyForDomains ==
    (cur.type = "domain" /\ cur.status = "returned" /\ ~cur.ret.from_cache) =>
        LET analyses == cur.ret.analyses
            basic == analyses[1].type = "domain" /\ "query" \in DOMAIN analyses[1]
            dns == analyses[Len(analyses)].type = "dns_info"
        IN  /\ IsValidIp(cur.query) => (Len(analyses) = 2 /\ basic /\ dns)
            /\ (~IsValidIp(cur.query) /\ IsValidDomain(cur.query)) =>
                  /\ Len(analyses) = 3
                  /\ basic
                  /\ "url" \in DOMAIN analyses[2]
                  /\ dns

\* the probes of the call in progress that have completed
Completed ==
    IF cur.type = "username"
    THEN Cardinality({i \in 1..Len(responses) : ~responses[i].pending})
    ELSE Len(acc)

\* the probes that apply to the query of the call in progress
Applicable ==
    CASE cur.type = "username" -> Len(Scrapers)
      [] cur.type = "email" -> Len(EmailPlatforms(cur.raw))
      [] OTHER -> IF Contains(cur.query, ".") THEN 3 ELSE 2

\* C22: on a cache miss of a username, e-mail or domain call every
\* applicable probe has been started before any probe has completed.
C22_ConcurrentDispatch ==
    (cur.status = "running" /\ cur.type \in {"username", "email", "domain"} /\ Completed > 0) =>
        cur.probes = Applicable

\* C23: a resolve call with a valid identifier reads the cache once, before
\* anything else; served from the cache it has made no request and no
\* cache write; on a miss it writes the cache exactly once, not before
\* every probe has completed and not after it has returned.
C23_RequestStateMachine ==
    (cur.status \in {"running", "returned"} /\ ValidIdentifier(cur.type, cur.raw)) =>
        /\ cur.reads = 1
        /\ cur.status = "running" => cur.writes = 0
        /\ (cur.status = "returned" /\ cur.ret.from_cache) =>
              (cur.probes = 0 /\ cur.writes = 0 /\ cur.age >= 0)
        /\ (cur.status = "returned" /\ ~cur.ret.from_cache) =>
              (cur.writes = 1 /\ AllProbesRan)

\* a username call that ran its six probes and wrote the cache once is
\* followed by a call that is served from the cache
C23_Witness ==
    /\ cur.type = "username"
    /\ cur.status = "returned"
    /\ cur.ret.from_cache
    /\ cur.reads = 1
    /\ cur.probes = 0
    /\ cur.writes = 0
    /\ prev.status = "returned"
    /\ ~prev.ret.from_cache
    /\ prev.reads = 1
    /\ prev.probes = 6
    /\ prev.writes = 1

\* C24: a search_username run that fails (no scraper yields an entry,
\* success is false) writes no cache entry, and the next call for the same
\* username runs the probes again instead of being served from the cache.
C24_FailedRunWritesNothing ==
    /\ (cur.type = "username" /\ cur.status = "returned" /\ "success" \in DOMAIN cur.ret
           /\ ~cur.ret.from_cache /\ ~cur.ret.success) =>
          (cur.writes = 0 /\ CurKey \notin DOMAIN store)
    /\ (prev.type = "username" /\ prev.status = "returned" /\ "success" \in DOMAIN prev.ret
           /\ ~prev.ret.success /\ cur.type = "username" /\ cur.raw = prev.raw
           /\ cur.status = "returned") =>
          ~cur.ret.from_cache

\* the string has no leading '@' and no whitespace at either end
Normalized(s) ==
    \/ s = <<>>
    \/ s[1] \notin {"@"} \cup Whitespace /\ s[Len(s)] \notin Whitespace

\* the raw username with every leading '@' and all surrounding whitespace
\* taken away
Remainder(raw) ==
    LET t == Lstrip(raw, {"@"} \cup Whitespace) IN
    SubSeq(t, 1, Len(t) - TrailingIn(t, Whitespace))

\* C25: the username a call of search_username asks the cache for and
\* reports in result.query has no leading '@' and no whitespace around it;
\* when nothing remains of the raw username the call returns the error
\* result 'Username cannot be empty' and has made no request and no cache
\* call.
C25_UsernameNormalization ==
    (cur.type = "username" /\ cur.status \in {"running", "returned"}) =>
        /\ Normalized(cur.query)
        /\ cur.status = "returned" => Normalized(cur.ret.query)
        /\ (cur.status = "returned" /\ Remainder(cur.raw) = <<>>) =>
              /\ "error" \in DOMAIN cur.ret
              /\ cur.ret.error = "Username cannot be empty"
              /\ cur.probes = 0
              /\ cur.reads = 0
              /\ cur.writes = 0

\* C26: a get changes and removes no entry but the one of its own key; a
\* get that returns a payload leaves the content and the modification time
\* of its entry as they were; an entry leaves the directory only in a get
\* of its own key or in a clear, never with the passing of time.
C26_GetFrame ==
    /\ [][(api' # api /\ api'.op = "get") =>
             /\ \A k \in DOMAIN store \ {KeyString(api')} :
                   k \in DOMAIN store' /\ store'[k] = store[k]
             /\ api'.ret # None =>
                   /\ KeyString(api') \in DOMAIN store'
                   /\ store'[KeyString(api')] = store[KeyString(api')]]_vars
    /\ [][\A k \in DOMAIN store \ DOMAIN store' :
             /\ api' # api
             /\ \/ api'.op = "clear"
                \/ api'.op = "get" /\ KeyString(api') = k]_vars

\* a get has been served from a file written twelve hours before it, which
\* still carries that time, while a file of another key, older than the
\* expiry time, is still in the directory
C26_Witness ==
    /\ api.op = "get"
    /\ api.ret # None
    /\ api.old = api.at - TickHours
    /\ KeyString(api) \in DOMAIN store
    /\ store[KeyString(api)].mtime = api.old
    /\ \E k \in DOMAIN store \ {KeyString(api)} : now - store[k].mtime >= CACHE_EXPIRY_HOURS

\* C27: the entry of every platform has status 'accessible' exactly when
\* its request was answered with 200, 'not_found' exactly when with 404,
\* 'http_<code>' when with another status, 'error' exactly when the request
\* raised; success is true exactly when some entry is 'accessible'.
C27_EmailStatusMapping ==
    unit.fn = "search_email" =>
        /\ Len(unit.value.results) = Len(unit.arg)
        /\ \A i \in 1..Len(unit.arg) :
              LET status == unit.value.results[i].status
                  r == unit.arg[i]
              IN  /\ status = <<"accessible">> <=> (~r.raised /\ r.status = 200)
                  /\ status = <<"not_found">> <=> (~r.raised /\ r.status = 404)
                  /\ status = <<"error">> <=> r.raised
                  /\ (~r.raised /\ r.status \notin {200, 404}) =>
                        status = <<"http_">> \o Decimal(r.status)
                  /\ unit.value.results[i].platform = EmailPlatformNames[i]
        /\ Len(unit.arg) = Len(EmailPlatformNames) =>
              (unit.value.success <=>
                  \E i \in 1..Len(unit.arg) : unit.value.results[i].status = <<"accessible">>)

\* one platform was answered with 200, one with 404, one with 301, one
\* with 500 and one request raised
C27_Witness ==
    /\ unit.fn = "search_email"
    /\ Len(unit.arg) = Len(EmailPlatformNames)
    /\ unit.value.success
    /\ \A status \in {<<"accessible">>, <<"not_found">>, <<"error">>,
                      <<"http_", "3", "0", "1">>, <<"http_", "5", "0", "0">>} :
          \E i \in 1..Len(unit.value.results) : unit.value.results[i].status = status

\* four dot-separated parts, each a non-empty string of decimal digits
\* with a value from 0 to 255
StrictIp(s) ==
    LET parts == Split(s, ".") IN
    /\ Len(parts) = 4
    /\ \A i \in 1..4 :
          /\ parts[i] # <<>>
          /\ AllIn(parts[i], Digits)
          /\ DigitsValue(parts[i]) <= 255

\* C29: is_valid_ip accepts exactly the strings of four dot-separated
\* parts of decimal digits only with values from 0 to 255; no string is
\* accepted by both is_valid_ip and is_valid_domain; a string accepted by
\* neither is reported as an invalid format.
C29_StrictClassification ==
    unit.fn = "get_domain_info" =>
        /\ unit.value.ip <=> StrictIp(unit.arg)
        /\ ~(unit.value.ip /\ unit.value.domain)
        /\ (~unit.value.ip /\ ~unit.value.domain) => "error" \in DOMAIN unit.value.info

\* the platforms whose scraper looks for a negative marker in the page
NegativeMarkerPlatforms == {"Twitter", "VK", "Telegram"}

\* C30: a scraper returns an entry with found true only if its request was
\* answered with status 200 and the page carries none of the negative
\* markers of the platform; a 404, another status or a raised request
\* gives no entry with found true.
C30_NoFalsePositive ==
    (unit.fn = "scrape" /\ ~unit.value.none /\ unit.value.value.found) =>
        /\ ~unit.arg.answer.raised
        /\ unit.arg.answer.status = 200
        /\ unit.arg.platform \in NegativeMarkerPlatforms => ~unit.arg.answer.neg
        /\ unit.value.value.platform = unit.arg.platform

\* the Telegram scraper has found a profile in a page answered with 200
\* that carries no negative marker
C30_Witness ==
    /\ unit.fn = "scrape"
    /\ unit.arg.platform = "Telegram"
    /\ unit.arg.answer.status = 200
    /\ ~unit.arg.answer.neg
    /\ ~unit.value.none
    /\ unit.value.value.found

\* C31: the query of a returned result is the identifier supplied in this
\* call, as it was typed or after the normalization of its type, also when
\* the result is served from an entry an earlier call stored under the same
\* key with another spelling.
C31_QueryIsThisCallsIdentifier ==
    (cur.status = "returned" /\ "query" \in DOMAIN cur.ret) =>
        cur.ret.query \in {cur.raw, cur.query}

\* C32: a call of cache.set that returns false leaves the directory as it
\* was: an entry stored under the key before is still there and, within
\* the expiry time, is what the next cache.get of the key returns.
C32_FailedSetLeavesStore ==
    /\ [][(api' # api /\ api'.op = "set" /\ api'.ret = FALSE) => store' = store]_vars
    /\ [](  (/\ was.op = "set" /\ was.ret = FALSE /\ was.old >= 0
             /\ api.op = "get" /\ ~api.raised
             /\ GetCacheKey(api.query, api.type) = GetCacheKey(was.query, was.type)
             /\ api.at - was.old < CACHE_EXPIRY_HOURS)
          => ~api.ret.none)

\* C33: a lobby is distributed at most once: of the /stop_in commands of
\* administrators that are handled side by side for one lobby, one sends
\* the distribution and every other one is told that no lobby is open.
C33_OneDistributionPerLobby ==
    /\ \A i, j \in 1..Len(lot.posted) : lot.posted[i] = lot.posted[j] => i = j
    /\ \A h, k \in Stoppers :
          (h # k /\ stop[h].lobby = stop[k].lobby /\ stop[h].said = "results")
              => stop[k].said # "results"

\* C34: a /stop_in whose sender is neither administrator nor creator of
\* the chat, or whose sender's status cannot be read, leaves lobby_open,
\* the participants and the lobby message id as they are and sends no
\* distribution.
C34_OnlyAdminsClose ==
    /\ [](\A h \in Stoppers :
            stop[h].admin \in {"no", "failed"} =>
                /\ stop[h].pc = "idle"
                /\ stop[h].said \in {"not_admin", "check_failed"})
    /\ [][\A h \in Stoppers :
            (stop[h].pc = "checking" /\ stop'[h].admin \in {"no", "failed"}) =>
                /\ UNCHANGED <<lobby_open, participants_lobby, lobby_message_id>>
                /\ lot'.posted = lot.posted]_vars

\* a member who is no administrator has sent /stop_in to an open lobby
\* with a participant, and the lobby is still open with that participant
C34_Witness ==
    \E h \in Stoppers :
        /\ stop[h].said = "not_admin"
        /\ Chat \in lobby_open
        /\ Entries(Chat) # <<>>
        /\ Chat \in DOMAIN lobby_message_id

\* C35: a press of the join button is recorded and confirmed only if the
\* lobby of the chat is open: while it is not (before any /random_1, after
\* /stop_in has closed it) no participant is added.
C35_JoinOnlyWhileOpen ==
    /\ [](lot.joined.confirmed => lot.joined.open)
    /\ [][Chat \notin lobby_open => Len(Entries(Chat)') <= Len(Entries(Chat))]_vars

C37_DialogEnds ==
    \A type \in DOMAIN Dialogs :
        turn.handler = Dialogs[type].process =>
            IF Lower(turn.text) \in CancelWords
            THEN state = "none" /\ turn.searches = <<>>
            ELSE IF Strip(turn.text) = <<>>
            THEN state = turn.before /\ turn.searches = <<>>
            ELSE /\ state = "none"
                 /\ turn.searches = <<[type |-> type, query |-> Strip(turn.text)]>>

\* C38: /cancel sent in a waiting state clears the state and runs no
\* search; sent without a state it is answered by cmd_cancel and nothing
\* changes.
C38_CancelCommand ==
    CommandOf(turn.text) = CommandNames.cancel =>
        /\ state = "none"
        /\ turn.searches = <<>>
        /\ turn.handler = "cmd_cancel"

====
